---- MODULE Spec2Model ----
(***************************************************************************)
(* A model of the HiSLIP client of pyhislip.py: the session state, the     *)
(* operations of class HiSLIP and the frames exchanged with the server on  *)
(* the synchronous and the asynchronous channel.                           *)
(*                                                                         *)
(* Encodings.  TLC's integers are 32-bit signed, so a 32-bit unsigned      *)
(* word (a message id, a message parameter) is held as the pair            *)
(* <<high 16 bits, low 16 bits>>.  A payload is a sequence of byte values; *)
(* the model uses the ASCII bytes 10 (newline) and 65 ("A").  A frame is a *)
(* record [type, control, param, payload] with a well-formed header.       *)
(***************************************************************************)
EXTENDS Integers, Sequences, FiniteSets, TLC

\* ---------------------------------------------------------------- bounds
\* longest data_str handed to write in the data-transfer specification
MaxLen == 3
\* frames the server may have unread on the synchronous channel
MaxQueue == 1
\* the same in the query specification: a response behind a stale one
MaxAskQueue == 2
\* Data/DataEnd/Trigger frames sent since the last connect or device_clear,
\* in the session specification
MaxFrames == 3
\* the same in the data-transfer specification: enough for the counter to wrap
WrapFrames == 130
\* bytes ask has assembled when the server stops sending more
MaxData == 2
\* nested reconnects of the fatal-error handler
MaxReconnect == 2
\* start_SRQ_thread calls in a run
MaxWaiters == 2
\* AsyncServiceRequest frames the server sends in a run
MaxSRQ == 2
\* bytes of a payload handed to the frame codec
MaxCodecLen == 2

\* ------------------------------------------------------ program constants
_PROTOCOL_VERSION_MAX == 257
_MAXIMUM_MESSAGE_SIZE == 272
HEADER_LENGTH == 16
_SOCKET_TIMEOUT == 1
_LOCK_TIMEOUT == 3000
NL == 10

_INITIAL_MESSAGE_ID == <<65535, 65280>>
_UNKNOWN_MESSAGE_ID == <<65535, 65535>>

message_types ==
    [Initialize |-> 0, InitializeResponse |-> 1, FatalError |-> 2, Error |-> 3,
     AsyncLock |-> 4, AsyncLockResponse |-> 5, Data |-> 6, DataEnd |-> 7,
     DeviceClearComplete |-> 8, DeviceClearAcknowledge |-> 9,
     AsyncRemoteLocalControl |-> 10, AsyncRemoteLocalResponse |-> 11,
     Trigger |-> 12, Interrupted |-> 13, AsyncInterrupted |-> 14,
     AsyncMaximumMessageSize |-> 15, AsyncMaximumMessageSizeResponse |-> 16,
     AsyncInitialize |-> 17, AsyncInitializeResponse |-> 18,
     AsyncDeviceClear |-> 19, AsyncServiceRequest |-> 20,
     AsyncStatusQuery |-> 21, AsyncStatusResponse |-> 22,
     AsyncDeviceClearAcknowledge |-> 23, AsyncLockInfo |-> 24,
     AsyncLockInfoResponse |-> 25]

\* number of entries of the lists fatal_error_codes and error_codes
fatal_error_codes == 5
error_codes == 5

\* ---------------------------------------------------------------- words
\* a 32-bit word from a number below 2^16
U32(n) == <<0, n>>

\* an attribute that connect has not set yet
Unset == <<-1, -1>>

\* (x + 2) & 0xffffffff on the two halves
MutAdd2NoWrap(x) == <<x[1], x[2] + 2>>
MutAdd1(x) == IF x[2] + 1 > 65535 THEN <<(x[1] + 1) % 65536, 0>> ELSE <<x[1], x[2] + 1>>
Add2(x) ==
    IF x[2] + 2 > 65535
    THEN <<(x[1] + 1) % 65536, (x[2] + 2) % 65536>>
    ELSE <<x[1], x[2] + 2>>

\* struct.pack('>q', n) for 0 <= n < 2^31: eight bytes, most significant first
PackQ(n) ==
    <<0, 0, 0, 0, (n \div 16777216) % 256, (n \div 65536) % 256,
      (n \div 256) % 256, n % 256>>

\* struct.unpack('>q', b)[0] for a value below 2^31
UnpackQ(b) == ((b[5] * 256 + b[6]) * 256 + b[7]) * 256 + b[8]

\* ---------------------------------------------------------------- frames
Frame(t, c, p, d) == [type |-> t, control |-> c, param |-> p, payload |-> d]

\* _create_hislip_message: the frame the client puts on the wire
_create_hislip_message(message_type, control_code, message_parameter, data) ==
    Frame(message_type, control_code, message_parameter, data)

BoolCode(b) == IF b THEN 1 ELSE 0

Bytes == {NL, 65}

RECURSIVE SeqsUpTo(_, _)
SeqsUpTo(S, n) ==
    IF n = 0 THEN {<<>>}
    ELSE LET shorter == SeqsUpTo(S, n - 1)
         IN  shorter \cup {Append(s, b) : s \in shorter, b \in S}

\* the data_str handed to write in the data-transfer specification
Payloads == SeqsUpTo(Bytes, MaxLen)

\* the data_str handed to write and ask in the session specification
SessionPayloads == {<<>>, <<65>>}

\* the Data and DataEnd frames the server sends, but for the message parameter
ServerData ==
    {<<message_types.Data, <<>> >>, <<message_types.Data, <<65>> >>,
     <<message_types.DataEnd, <<>> >>, <<message_types.DataEnd, <<65>> >>,
     <<message_types.DataEnd, <<NL>> >>}

\* control codes the server answers with
ControlCodes == {0, 1}

\* session ids the server hands out
SessionIds == {4660}

\* status bytes the server answers a status query with: 0x50 has bit 4 (MAV) set
StatusBytes == {0, 80}

\* sizes asked for with set_max_message_size, and sizes the server answers
RequestSizes == {17, 18, 19}
ServerSizes == {17, 4096}

VARIABLES
    PY3,                     \* the interpreter is Python 3 (else Python 2)
    sync_channel,            \* "none", "open" or "closed"
    async_channel,
    sync_in,                 \* frames sent by the server, not yet read
    async_in,
    sync_out,                \* frames the running (or just ended) operation sent
    async_out,
    message_id,
    most_recent_message_id,
    overlap_mode,
    session_id,
    rmt_delivered,
    MAXIMUM_MESSAGE_SIZE,
    pc,                      \* where the caller is: "idle" between operations, the read an
                             \* operation waits in, "returned" when it has just ended
    op,                      \* the operation it runs (or has just ended)
    outcome,                 \* how the operation that has just ended did end
    full_data,               \* ask: the payload assembled so far
    reqRaw,                  \* ask: its reqRaw argument
    fatal_depth,             \* nested _send_fatal_error_to_server calls running
    nframes,                 \* Data/DataEnd/Trigger frames sent since connect/device_clear
    start_id,                \* message_id when the operation began
    arg,                     \* the operation's argument or local (message_size, feature_preference)
    request,                 \* the data_str handed to write or ask
    srq_lock,                \* srq_lock is locked
    waiters,                 \* where each SRQ_wait thread is, in the order they were started
    callbacks,               \* callbacks invoked by the SRQ_wait threads
    srq_sent,                \* AsyncServiceRequest frames the server has sent
    joined,                  \* the caller has acquired srq_lock to join the SRQ_wait thread
    codec_in,                \* the frame handed to _create_hislip_message, if any
    message,                 \* the bytes _create_hislip_message returned
    codec_out,               \* what reading those bytes gave, if they were read
    SOCKET_TIMEOUT,          \* seconds a read waits
    LOCK_TIMEOUT             \* the timeout request_lock asks the server for

vars ==
    <<PY3, sync_channel, async_channel, sync_in, async_in, sync_out, async_out,
      message_id, most_recent_message_id, overlap_mode, session_id,
      rmt_delivered, MAXIMUM_MESSAGE_SIZE, pc, op, outcome, full_data, reqRaw,
      fatal_depth, nframes, start_id, arg, request,
      srq_lock, waiters, callbacks, srq_sent, joined, codec_in, message, codec_out,
      SOCKET_TIMEOUT, LOCK_TIMEOUT>>

timeout_vars == <<SOCKET_TIMEOUT, LOCK_TIMEOUT>>

codec_vars == <<codec_in, message, codec_out>>

srq_vars == <<srq_lock, waiters, callbacks, srq_sent, joined>>

\* how an operation ended: exc is "none" when it returned, value what it returned
Outcome(o, e, v) == [op |-> o, exc |-> e, value |-> v]

\* HiSLIP.__init__ and _HiSLIP.__init__: no channel, no session attribute yet
Init ==
    /\ PY3 \in BOOLEAN
    /\ sync_channel = "none"
    /\ async_channel = "none"
    /\ sync_in = <<>>
    /\ async_in = <<>>
    /\ sync_out = <<>>
    /\ async_out = <<>>
    /\ message_id = Unset
    /\ most_recent_message_id = Unset
    /\ overlap_mode = -1
    /\ session_id = -1
    /\ rmt_delivered = FALSE
    /\ MAXIMUM_MESSAGE_SIZE = _MAXIMUM_MESSAGE_SIZE
    /\ pc = "idle"
    /\ op = "none"
    /\ outcome = Outcome("none", "none", <<>>)
    /\ full_data = <<>>
    /\ reqRaw = FALSE
    /\ fatal_depth = 0
    /\ nframes = 0
    /\ start_id = Unset
    /\ arg = 0
    /\ request = <<>>
    /\ srq_lock = FALSE
    /\ waiters = <<>>
    /\ callbacks = 0
    /\ srq_sent = 0
    /\ joined = FALSE
    /\ codec_in = <<>>
    /\ message = <<>>
    /\ codec_out = <<>>
    /\ SOCKET_TIMEOUT = _SOCKET_TIMEOUT
    /\ LOCK_TIMEOUT = _LOCK_TIMEOUT

\* ------------------------------------------------------------ the server
\* The reconnect of the fatal-error handler is cut off at MaxReconnect nested
\* calls: at that depth the server answers the handshake (or refuses it with an
\* Error or FatalError frame) and no read times out.
AtCap == fatal_depth >= MaxReconnect

SyncReaders == {"connect_sync", "ask", "dc_sync"}
AsyncReaders ==
    {"connect_async", "set_max_message_size", "dc_async", "status_query",
     "lock_info", "remote_local", "request_lock", "release_lock"}

IdParam == IF most_recent_message_id = Unset THEN U32(0) ELSE most_recent_message_id

\* A server that keeps to the protocol: it answers the handshake, a device
\* clear and, with a DataEnd that carries the id of the query and may follow
\* Data frames, an ask.
HonestSyncFrames ==
    (IF pc = "connect_sync"
     THEN {Frame(message_types.InitializeResponse, c, <<_PROTOCOL_VERSION_MAX, s>>, <<>>) :
              c \in ControlCodes, s \in SessionIds}
     ELSE {})
    \cup
    (IF pc = "dc_sync"
     THEN {Frame(message_types.DeviceClearAcknowledge, c, U32(0), <<>>) : c \in ControlCodes}
     ELSE {})
    \cup
    (IF pc = "ask" /\ sync_in = <<>> /\ Len(full_data) < MaxData
     THEN {Frame(message_types.Data, 0, most_recent_message_id, <<65>>),
           Frame(message_types.DataEnd, 0, most_recent_message_id, <<NL>>)}
     ELSE {})

HonestAsyncFrames ==
    (IF pc = "connect_async"
     THEN {Frame(message_types.AsyncInitializeResponse, 0, U32(23116), <<>>)}
     ELSE {})
    \cup
    (IF pc = "set_max_message_size"
     THEN {Frame(message_types.AsyncMaximumMessageSizeResponse, 0, U32(0), PackQ(s)) :
              s \in ServerSizes}
     ELSE {})
    \cup
    (IF pc = "dc_async"
     THEN {Frame(message_types.AsyncDeviceClearAcknowledge, c, U32(0), <<>>) :
              c \in ControlCodes}
     ELSE {})

\* Any server.  To an ask it sends Data and DataEnd frames that carry the id of
\* the query or the unknown id; to a write it may send a response that nobody
\* reads, which is still queued when a later operation reads the channel; to
\* any read it may send a frame of another type, an Error or a FatalError.
SyncServerFrames ==
    (IF pc = "connect_sync"
     THEN {Frame(message_types.InitializeResponse, c, <<_PROTOCOL_VERSION_MAX, s>>, <<>>) :
              c \in ControlCodes, s \in SessionIds}
     ELSE {})
    \cup
    (IF pc = "dc_sync"
     THEN {Frame(message_types.DeviceClearAcknowledge, c, U32(0), <<>>) : c \in ControlCodes}
     ELSE {})
    \cup
    (IF pc = "ask" /\ Len(full_data) < MaxData
     THEN {Frame(td[1], 0, p, td[2]) :
              td \in ServerData, p \in {most_recent_message_id, _UNKNOWN_MESSAGE_ID}}
     ELSE {})
    \cup
    (IF pc = "idle" /\ message_id # Unset /\ sync_in = <<>>
     THEN {Frame(message_types.DataEnd, 0, most_recent_message_id, <<NL>>)}
     ELSE {})
    \cup
    (IF pc \in SyncReaders /\ ~AtCap
     THEN {Frame(message_types.Interrupted, 0, IdParam, <<>>)}
     ELSE {})
    \cup
    (IF pc \in SyncReaders
     THEN {Frame(message_types.Error, 2, U32(0), <<>>),
           Frame(message_types.FatalError, 3, U32(0), <<>>)}
     ELSE {})

\* the answers to lock_info, remote_local, request_lock and release_lock
LockFrames ==
    (IF pc = "lock_info"
     THEN {Frame(message_types.AsyncLockInfoResponse, c, U32(c), <<>>) : c \in ControlCodes}
     ELSE {})
    \cup
    (IF pc = "remote_local"
     THEN {Frame(message_types.AsyncRemoteLocalResponse, 0, U32(0), <<>>)}
     ELSE {})
    \cup
    (IF pc \in {"request_lock", "release_lock"}
     THEN {Frame(message_types.AsyncLockResponse, c, U32(0), <<>>) : c \in ControlCodes}
     ELSE {})

AsyncServerFrames ==
    HonestAsyncFrames
    \cup
    LockFrames
    \cup
    (IF pc = "status_query"
     THEN {Frame(message_types.AsyncStatusResponse, c, U32(0), <<>>) : c \in StatusBytes}
     ELSE {})
    \cup
    (IF pc \in AsyncReaders /\ ~AtCap
     THEN {Frame(message_types.AsyncServiceRequest, 0, U32(0), <<>>)}
     ELSE {})
    \cup
    (IF pc \in AsyncReaders
     THEN {Frame(message_types.Error, 2, U32(0), <<>>),
           Frame(message_types.FatalError, 3, U32(0), <<>>)}
     ELSE {})

session_vars ==
    <<message_id, most_recent_message_id, overlap_mode, session_id,
      rmt_delivered, MAXIMUM_MESSAGE_SIZE>>

caller_vars ==
    <<pc, op, outcome, full_data, reqRaw, fatal_depth, start_id, arg, request>>

\* the server sends frame f on the synchronous channel
ServerSendSync(f) ==
    /\ sync_channel = "open"
    /\ Len(sync_in) < MaxQueue
    /\ sync_in' = Append(sync_in, f)
    /\ UNCHANGED <<PY3, sync_channel, async_channel, async_in, sync_out, async_out,
                   session_vars, caller_vars, nframes>>
    /\ UNCHANGED <<srq_vars, codec_vars, timeout_vars>>

\* the server answers on the asynchronous channel with frame f
ServerSendAsync(f) ==
    /\ async_channel = "open"
    /\ async_in = <<>>
    /\ async_in' = <<f>>
    /\ UNCHANGED <<PY3, sync_channel, async_channel, sync_in, sync_out, async_out,
                   session_vars, caller_vars, nframes>>
    /\ UNCHANGED <<srq_vars, codec_vars, timeout_vars>>

\* ------------------------------------------------------- reading a frame
\* _HiSLIP._read_hislip_message followed by _message_exceptions, on a frame
\* that has arrived whole: what the read ends in.
\*   ok            the frame is returned
\*   error_local   _raise_error(code, 1)
\*   fatal_remote  _raise_fatal_error(control_code): the server's FatalError
\*   error_remote  _raise_error(control_code): the server's Error
\*   fatal_local   _raise_fatal_error(code, 1)
ReadResult(k, c) == [kind |-> k, code |-> c]

_message_exceptions(header, expected_message_type) ==
    IF Len(header.payload) > MAXIMUM_MESSAGE_SIZE THEN ReadResult("error_local", 4)
    ELSE IF header.type = message_types.FatalError
         THEN ReadResult("fatal_remote", header.control)
    ELSE IF header.type = message_types.Error
         THEN ReadResult("error_remote", header.control)
    ELSE IF expected_message_type # -1 /\ header.type # expected_message_type
         THEN ReadResult("fatal_local", 0)
    ELSE ReadResult("ok", 0)

\* HiSLIP._RMT_delivered.  Under Python 3 the payload of a DataEnd is a bytes
\* object, its last element an int, and the comparison with '\n' is false.
MutRMTSticky(message_type, data) ==
    \/ rmt_delivered
    \/ Len(data) >= 1 /\ message_type = message_types.DataEnd /\ data[Len(data)] = NL /\ ~PY3
_RMT_delivered(message_type, data) ==
    /\ Len(data) >= 1
    /\ message_type = message_types.DataEnd
    /\ data[Len(data)] = NL
    /\ ~PY3

\* an exception leaves the operation (and every reconnect it is nested in)
RaiseIn(o, exc) ==
    /\ pc' = "returned"
    /\ fatal_depth' = 0
    /\ outcome' = Outcome(o, exc, <<>>)

Raise(exc) == RaiseIn(op, exc)

\* an operation returns value to its caller
Return(o, value) ==
    /\ pc' = "returned"
    /\ fatal_depth' = 0
    /\ outcome' = Outcome(o, "none", value)

\* connect, up to the wait for the InitializeResponse: a new synchronous
\* socket, the Initialize frame sent on it
ConnectStart(sent) ==
    /\ sync_channel' = "open"
    /\ sync_in' = <<>>
    /\ sync_out' = Append(sent,
          _create_hislip_message(message_types.Initialize, 0,
                                 <<_PROTOCOL_VERSION_MAX, 23116>>, <<>>))
    /\ pc' = "connect_sync"

\* _raise_fatal_error(error_code, 1): _send_fatal_error_to_server sends the
\* FatalError frame, closes both channels and calls connect; HiSLIPFatalError
\* is raised when that connect has returned.
MutFatalLocalSilent(error_code) ==
    /\ Raise("TimeoutError")
    /\ UNCHANGED <<sync_channel, async_channel, sync_in, async_in, sync_out>>
FatalLocal(error_code) ==
    LET sent == Append(sync_out,
                  _create_hislip_message(message_types.FatalError, error_code, U32(0), <<>>))
    IN  IF async_channel = "none"
        THEN \* self.async_channel.close() on a session that never had one
             /\ sync_out' = sent
             /\ sync_channel' = "closed"
             /\ sync_in' = <<>>
             /\ Raise("AttributeError")
             /\ UNCHANGED <<async_channel, async_in>>
        ELSE /\ async_channel' = "closed"
             /\ async_in' = <<>>
             /\ ConnectStart(sent)
             /\ fatal_depth' = fatal_depth + 1
             /\ UNCHANGED outcome

\* a read that did not end in a frame for the caller; rest is the queue of the
\* channel after the read
ReadFailed(r, sync_rest, async_rest) ==
    CASE r.kind = "error_local" ->
            /\ sync_out' = Append(sync_out,
                  _create_hislip_message(message_types.Error, r.code, U32(0), <<>>))
            /\ Raise("TypeError")
            /\ sync_in' = sync_rest
            /\ async_in' = async_rest
            /\ UNCHANGED <<sync_channel, async_channel>>
      [] r.kind = "error_remote" ->
            /\ Raise(IF r.code < error_codes THEN "HiSLIPError" ELSE "IndexError")
            /\ sync_in' = sync_rest
            /\ async_in' = async_rest
            /\ UNCHANGED <<sync_channel, async_channel, sync_out>>
      [] r.kind = "fatal_remote" ->
            /\ Raise(IF r.code < fatal_error_codes THEN "HiSLIPFatalError" ELSE "IndexError")
            /\ sync_in' = sync_rest
            /\ async_in' = async_rest
            /\ UNCHANGED <<sync_channel, async_channel, sync_out>>
      [] r.kind = "fatal_local" ->
            /\ ~AtCap
            /\ FatalLocal(r.code)

\* what a failed read leaves alone
failed_frame ==
    <<PY3, async_out, session_vars, op, full_data, reqRaw, start_id, arg, request,
      nframes>>

\* socket.timeout in _read_hislip_message: nothing arrived within SOCKET_TIMEOUT
ReadTimeout ==
    /\ \/ pc \in SyncReaders /\ sync_in = <<>>
       \/ pc \in AsyncReaders /\ async_in = <<>>
    /\ ~AtCap
    /\ FatalLocal(1)
    /\ UNCHANGED failed_frame
    /\ UNCHANGED <<srq_vars, codec_vars, timeout_vars>>

\* ---------------------------------------------------------------- connect
\* HiSLIP.connect, to the first read
Connect ==
    /\ pc = "idle"
    /\ ConnectStart(<<>>)
    /\ op' = "connect"
    /\ async_out' = <<>>
    /\ start_id' = message_id
    /\ arg' = 0
    /\ request' = <<>>
    /\ UNCHANGED <<PY3, async_channel, async_in, session_vars, outcome, full_data,
                   reqRaw, fatal_depth, nframes>>
    /\ UNCHANGED <<srq_vars, codec_vars, timeout_vars>>

\* what connect takes from the InitializeResponse (lines 481-484)
MutInitializedVersion(header) ==
    [overlap_mode |-> header.control, session_id |-> header.param[1]]
Initialized(header) ==
    [overlap_mode |-> header.control, session_id |-> header.param[2]]

\* connect reads the InitializeResponse and opens the asynchronous channel
ConnectReadInitializeResponse ==
    /\ pc = "connect_sync"
    /\ sync_in # <<>>
    /\ LET header == Head(sync_in)
           r == _message_exceptions(header, message_types.InitializeResponse)
       IN  IF r.kind # "ok"
           THEN ReadFailed(r, Tail(sync_in), async_in) /\ UNCHANGED failed_frame
           ELSE /\ sync_in' = Tail(sync_in)
                /\ rmt_delivered' = _RMT_delivered(header.type, header.payload)
                /\ overlap_mode' = Initialized(header).overlap_mode
                /\ session_id' = Initialized(header).session_id
                /\ async_channel' = "open"
                /\ async_in' = <<>>
                /\ async_out' = Append(async_out,
                      _create_hislip_message(message_types.AsyncInitialize, 0,
                                             U32(Initialized(header).session_id), <<>>))
                /\ pc' = "connect_async"
                /\ UNCHANGED <<PY3, sync_channel, sync_out, message_id,
                               most_recent_message_id, MAXIMUM_MESSAGE_SIZE, op, outcome,
                               full_data, reqRaw, fatal_depth, nframes, start_id, arg, request>>
    /\ UNCHANGED <<srq_vars, codec_vars, timeout_vars>>

\* the work parameters connect sets at its end (lines 503-505)
MutWorkParametersRecentZero ==
    [message_id |-> _INITIAL_MESSAGE_ID, most_recent_message_id |-> U32(0),
     rmt_delivered |-> FALSE]
MutWorkParametersIdZero ==
    [message_id |-> U32(0), most_recent_message_id |-> _INITIAL_MESSAGE_ID,
     rmt_delivered |-> FALSE]
WorkParameters ==
    [message_id |-> _INITIAL_MESSAGE_ID, most_recent_message_id |-> _INITIAL_MESSAGE_ID,
     rmt_delivered |-> FALSE]

\* connect reads the AsyncInitializeResponse and sets the work parameters; a
\* connect made by the fatal-error handler returns into _raise_fatal_error
ConnectReadAsyncInitializeResponse ==
    /\ pc = "connect_async"
    /\ async_in # <<>>
    /\ LET header == Head(async_in)
           r == _message_exceptions(header, message_types.AsyncInitializeResponse)
       IN  IF r.kind # "ok"
           THEN ReadFailed(r, sync_in, Tail(async_in)) /\ UNCHANGED failed_frame
           ELSE /\ async_in' = Tail(async_in)
                /\ message_id' = WorkParameters.message_id
                /\ most_recent_message_id' = WorkParameters.most_recent_message_id
                /\ rmt_delivered' = WorkParameters.rmt_delivered
                /\ nframes' = 0
                /\ IF fatal_depth > 0 THEN Raise("HiSLIPFatalError") ELSE Return(op, <<>>)
                /\ UNCHANGED <<PY3, sync_channel, async_channel, sync_in, sync_out,
                               async_out, overlap_mode, session_id, MAXIMUM_MESSAGE_SIZE,
                               op, full_data, reqRaw, start_id, arg, request>>
    /\ UNCHANGED <<srq_vars, codec_vars, timeout_vars>>

\* ---------------------------------------------------------- data transfer
\* the operations below are called on a session that connect has set up
Ready ==
    /\ pc = "idle"
    /\ sync_channel = "open"
    /\ async_channel = "open"
    /\ message_id # Unset

\* HiSLIP.increment_message_id, on s = [message_id, most_recent_message_id, out]
MutIncrementByOne(s) ==
    [s EXCEPT !.most_recent_message_id = s.message_id,
              !.message_id = MutAdd1(s.message_id)]
MutIncrementNoWrap(s) ==
    [s EXCEPT !.most_recent_message_id = s.message_id,
              !.message_id = MutAdd2NoWrap(s.message_id)]
MutIncrementRecentAfter(s) ==
    [s EXCEPT !.most_recent_message_id = Add2(s.message_id),
              !.message_id = Add2(s.message_id)]
increment_message_id(s) ==
    [s EXCEPT !.most_recent_message_id = s.message_id,
              !.message_id = Add2(s.message_id)]

\* HiSLIP._add_new_line
_add_new_line(data) == IF data[Len(data)] # NL THEN Append(data, NL) ELSE data

\* the list `data` that write cuts data_str into (lines 572-574).  With a
\* negative max_message_length the range is empty and the slice that is
\* appended when the remainder is not 0 is empty too.
MutChunksDropRemainder(data_str, max_message_length) ==
    [k \in 1..(Len(data_str) \div max_message_length) |->
          SubSeq(data_str, (k - 1) * max_message_length + 1, k * max_message_length)]
Chunks(data_str, max_message_length) ==
    IF max_message_length >= 1
    THEN LET n == Len(data_str) \div max_message_length
             full == [k \in 1..n |->
                         SubSeq(data_str, (k - 1) * max_message_length + 1,
                                k * max_message_length)]
         IN  IF Len(data_str) % max_message_length # 0
             THEN Append(full, SubSeq(data_str, n * max_message_length + 1, Len(data_str)))
             ELSE full
    ELSE IF Len(data_str) % (0 - max_message_length) # 0 THEN << <<>> >> ELSE <<>>

\* the frame of the i-th pass of the loop of write (lines 579-582)
MutDataFrameNoRmt(data, i, s) ==
    _create_hislip_message(
        IF i = Len(data) THEN message_types.DataEnd ELSE message_types.Data,
        0, s.message_id, data[i])
DataFrame(data, i, s) ==
    _create_hislip_message(
        IF i = Len(data) THEN message_types.DataEnd ELSE message_types.Data,
        BoolCode(rmt_delivered), s.message_id, data[i])

\* the loop of write from its i-th pass on (lines 578-586)
RECURSIVE SendData(_, _, _)
SendData(data, i, s) ==
    IF i > Len(data) THEN s
    ELSE SendData(data, i + 1,
                  increment_message_id([s EXCEPT !.out = Append(s.out, DataFrame(data, i, s))]))

\* HiSLIP.write as a function of data_str: the exception it ends in ("none" when
\* it returns), the frames it sends and the ids it leaves
WriteResult(data_str) ==
    LET s0 == [message_id |-> message_id,
               most_recent_message_id |-> most_recent_message_id,
               out |-> <<>>]
        max_message_length == MAXIMUM_MESSAGE_SIZE - HEADER_LENGTH
    IN  IF data_str = <<>> THEN [exc |-> "IndexError", s |-> s0]
        ELSE IF max_message_length = 0 THEN [exc |-> "ZeroDivisionError", s |-> s0]
        ELSE [exc |-> "none",
              s |-> SendData(Chunks(_add_new_line(data_str), max_message_length), 1, s0)]

\* HiSLIP.write
Write(data_str, cap) ==
    /\ Ready
    /\    LET w == WriteResult(data_str)
          IN  /\ nframes + Len(w.s.out) <= cap
              /\ sync_out' = w.s.out
              /\ message_id' = w.s.message_id
              /\ most_recent_message_id' = w.s.most_recent_message_id
              /\ nframes' = nframes + Len(w.s.out)
              /\ request' = data_str
              /\ IF w.exc = "none" THEN Return("write", <<>>) ELSE RaiseIn("write", w.exc)
    /\ op' = "write"
    /\ arg' = 0
    /\ async_out' = <<>>
    /\ start_id' = message_id
    /\ UNCHANGED <<PY3, sync_channel, async_channel, sync_in, async_in, overlap_mode,
                   session_id, rmt_delivered, MAXIMUM_MESSAGE_SIZE, full_data, reqRaw>>
    /\ UNCHANGED <<srq_vars, codec_vars, timeout_vars>>

\* HiSLIP.trigger_message
Trigger(cap) ==
    /\ Ready
    /\ nframes + 1 <= cap
    /\ LET s == increment_message_id(
                   [message_id |-> message_id,
                    most_recent_message_id |-> most_recent_message_id,
                    out |-> <<_create_hislip_message(message_types.Trigger,
                                  BoolCode(rmt_delivered), message_id, <<>>)>>])
       IN  /\ sync_out' = s.out
           /\ message_id' = s.message_id
           /\ most_recent_message_id' = s.most_recent_message_id
    /\ nframes' = nframes + 1
    /\ Return("trigger", <<>>)
    /\ op' = "trigger"
    /\ async_out' = <<>>
    /\ start_id' = message_id
    /\ arg' = 0
    /\ request' = <<>>
    /\ UNCHANGED <<PY3, sync_channel, async_channel, sync_in, async_in, overlap_mode,
                   session_id, rmt_delivered, MAXIMUM_MESSAGE_SIZE, full_data, reqRaw>>
    /\ UNCHANGED <<srq_vars, codec_vars, timeout_vars>>

\* HiSLIP.ask, to its first read: write(data_str), then _wait_for_answer, whose
\* result is not looked at
Ask(data_str, raw, cap) ==
    /\ Ready
    /\    LET w == WriteResult(data_str)
          IN  /\ nframes + Len(w.s.out) <= cap
              /\ sync_out' = w.s.out
              /\ message_id' = w.s.message_id
              /\ most_recent_message_id' = w.s.most_recent_message_id
              /\ nframes' = nframes + Len(w.s.out)
              /\ request' = data_str
              /\ reqRaw' = raw
              /\ IF w.exc = "none"
                 THEN pc' = "ask" /\ UNCHANGED <<outcome, fatal_depth>>
                 ELSE RaiseIn("ask", w.exc)
    /\ op' = "ask"
    /\ arg' = 0
    /\ full_data' = <<>>
    /\ async_out' = <<>>
    /\ start_id' = message_id
    /\ UNCHANGED <<PY3, sync_channel, async_channel, sync_in, async_in, overlap_mode,
                   session_id, rmt_delivered, MAXIMUM_MESSAGE_SIZE>>
    /\ UNCHANGED <<srq_vars, codec_vars, timeout_vars>>

\* the test of ask on the message parameter of a frame (lines 607-611)
MutAcceptedAny(header) == header.param = header.param
Accepted(header) ==
    \/ header.param = most_recent_message_id
    \/ overlap_mode = 0 /\ header.param = _UNKNOWN_MESSAGE_ID

\* what _read_hislip_data hands back is a bytes object: the payload of a Data
\* or DataEnd frame that has one; anything else is a str
IsBytes(header) ==
    /\ header.payload # <<>>
    /\ header.type \in {message_types.Data, message_types.DataEnd}

\* one pass of the loop of ask (lines 603-624)
AskRead ==
    /\ pc = "ask"
    /\ sync_in # <<>>
    /\ LET header == Head(sync_in)
           r == _message_exceptions(header, -1)
       IN  IF r.kind # "ok"
           THEN ReadFailed(r, Tail(sync_in), async_in) /\ UNCHANGED failed_frame
           ELSE /\ sync_in' = Tail(sync_in)
                /\ rmt_delivered' = _RMT_delivered(header.type, header.payload)
                /\ IF PY3 /\ ~reqRaw /\ ~IsBytes(header)
                   THEN \* data.decode() on a str
                        Raise("AttributeError") /\ UNCHANGED <<full_data, sync_out>>
                   ELSE IF ~Accepted(header)
                   THEN Return(op, <<>>) /\ full_data' = <<>> /\ UNCHANGED sync_out
                   ELSE IF header.type \notin {message_types.Data, message_types.DataEnd}
                   THEN \* _raise_error(1, 1)
                        /\ sync_out' = Append(sync_out,
                              _create_hislip_message(message_types.Error, 1, U32(0), <<>>))
                        /\ Raise("TypeError")
                        /\ UNCHANGED full_data
                   ELSE IF PY3 /\ reqRaw /\ ~IsBytes(header)
                   THEN \* bytes + str
                        Raise("TypeError") /\ UNCHANGED <<full_data, sync_out>>
                   ELSE /\ full_data' = full_data \o header.payload
                        /\ UNCHANGED sync_out
                        /\ IF header.type = message_types.DataEnd
                           THEN Return(op, full_data \o header.payload)
                           ELSE UNCHANGED <<pc, outcome, fatal_depth>>
                /\ UNCHANGED <<PY3, sync_channel, async_channel, async_in, async_out,
                               message_id, most_recent_message_id, overlap_mode,
                               session_id, MAXIMUM_MESSAGE_SIZE, op, reqRaw, nframes,
                               start_id, arg, request>>
    /\ UNCHANGED <<srq_vars, codec_vars, timeout_vars>>

\* ----------------------------------------------------------- async control
\* HiSLIP.set_max_message_size, to its read
SetMaxMessageSize(message_size) ==
    /\ Ready
    /\ arg' = message_size
    /\ async_out' = <<_create_hislip_message(message_types.AsyncMaximumMessageSize,
                                             0, U32(0), PackQ(message_size))>>
    /\ pc' = "set_max_message_size"
    /\ op' = "set_max_message_size"
    /\ sync_out' = <<>>
    /\ start_id' = message_id
    /\ request' = <<>>
    /\ UNCHANGED <<PY3, sync_channel, async_channel, sync_in, async_in, session_vars,
                   outcome, full_data, reqRaw, fatal_depth, nframes>>
    /\ UNCHANGED <<srq_vars, codec_vars, timeout_vars>>

\* min(message_size, int(data)) (line 531)
MutNegotiatedRequested(message_size, data) == message_size
Negotiated(message_size, data) == IF message_size < data THEN message_size ELSE data

\* set_max_message_size reads the AsyncMaximumMessageSizeResponse, whose payload
\* _read_hislip_data unpacks
SetMaxMessageSizeRead ==
    /\ pc = "set_max_message_size"
    /\ async_in # <<>>
    /\ LET header == Head(async_in)
           r == _message_exceptions(header, message_types.AsyncMaximumMessageSizeResponse)
       IN  IF r.kind # "ok"
           THEN ReadFailed(r, sync_in, Tail(async_in)) /\ UNCHANGED failed_frame
           ELSE /\ async_in' = Tail(async_in)
                /\ rmt_delivered' = _RMT_delivered(header.type, header.payload)
                /\ MAXIMUM_MESSAGE_SIZE' = Negotiated(arg, UnpackQ(header.payload))
                /\ Return(op, <<>>)
                /\ UNCHANGED <<PY3, sync_channel, async_channel, sync_in, sync_out,
                               async_out, message_id, most_recent_message_id,
                               overlap_mode, session_id, op, full_data, reqRaw, nframes,
                               start_id, arg, request>>
    /\ UNCHANGED <<srq_vars, codec_vars, timeout_vars>>

\* HiSLIP.device_clear, to its first read
DeviceClear ==
    /\ Ready
    /\ async_out' = <<_create_hislip_message(message_types.AsyncDeviceClear, 0, U32(0), <<>>)>>
    /\ pc' = "dc_async"
    /\ op' = "device_clear"
    /\ sync_out' = <<>>
    /\ start_id' = message_id
    /\ arg' = 0
    /\ request' = <<>>
    /\ UNCHANGED <<PY3, sync_channel, async_channel, sync_in, async_in, session_vars,
                   outcome, full_data, reqRaw, fatal_depth, nframes>>
    /\ UNCHANGED <<srq_vars, codec_vars, timeout_vars>>

\* the DeviceClearComplete frame device_clear sends after the
\* AsyncDeviceClearAcknowledge with the given header (lines 650-653)
MutDeviceClearCompleteZero(header) ==
    _create_hislip_message(message_types.DeviceClearComplete, 0, U32(0), <<>>)
DeviceClearComplete(header) ==
    _create_hislip_message(message_types.DeviceClearComplete, header.control, U32(0), <<>>)

\* device_clear reads the AsyncDeviceClearAcknowledge and sends
\* DeviceClearComplete on the synchronous channel
DeviceClearReadAsync ==
    /\ pc = "dc_async"
    /\ async_in # <<>>
    /\ LET header == Head(async_in)
           r == _message_exceptions(header, message_types.AsyncDeviceClearAcknowledge)
       IN  IF r.kind # "ok"
           THEN ReadFailed(r, sync_in, Tail(async_in)) /\ UNCHANGED failed_frame
           ELSE /\ async_in' = Tail(async_in)
                /\ rmt_delivered' = _RMT_delivered(header.type, header.payload)
                /\ arg' = header.control
                /\ sync_out' = Append(sync_out, DeviceClearComplete(header))
                /\ pc' = "dc_sync"
                /\ UNCHANGED <<PY3, sync_channel, async_channel, sync_in, async_out,
                               message_id, most_recent_message_id, overlap_mode,
                               session_id, MAXIMUM_MESSAGE_SIZE, op, outcome, full_data,
                               reqRaw, fatal_depth, nframes, start_id, request>>
    /\ UNCHANGED <<srq_vars, codec_vars, timeout_vars>>

\* what device_clear leaves in the session after the DeviceClearAcknowledge
\* with control code feature_setting (lines 657-663)
MutClearedRecentInitial(feature_setting) ==
    [overlap_mode |-> feature_setting, message_id |-> _INITIAL_MESSAGE_ID,
     most_recent_message_id |-> _INITIAL_MESSAGE_ID, rmt_delivered |-> FALSE]
Cleared(feature_setting) ==
    [overlap_mode |-> feature_setting, message_id |-> _INITIAL_MESSAGE_ID,
     most_recent_message_id |-> U32(0), rmt_delivered |-> FALSE]

\* device_clear reads the DeviceClearAcknowledge and resets the session
DeviceClearReadSync ==
    /\ pc = "dc_sync"
    /\ sync_in # <<>>
    /\ LET header == Head(sync_in)
           r == _message_exceptions(header, message_types.DeviceClearAcknowledge)
       IN  IF r.kind # "ok"
           THEN ReadFailed(r, Tail(sync_in), async_in) /\ UNCHANGED failed_frame
           ELSE /\ sync_in' = Tail(sync_in)
                /\ overlap_mode' = Cleared(header.control).overlap_mode
                /\ message_id' = Cleared(header.control).message_id
                /\ most_recent_message_id' = Cleared(header.control).most_recent_message_id
                /\ rmt_delivered' = Cleared(header.control).rmt_delivered
                /\ nframes' = 0
                /\ Return(op, <<>>)
                /\ UNCHANGED <<PY3, sync_channel, async_channel, async_in, sync_out,
                               async_out, session_id, MAXIMUM_MESSAGE_SIZE, op, full_data,
                               reqRaw, start_id, arg, request>>
    /\ UNCHANGED <<srq_vars, codec_vars, timeout_vars>>

\* HiSLIP.status_query, to its read
StatusQuery ==
    /\ Ready
    /\ async_out' = <<_create_hislip_message(message_types.AsyncStatusQuery,
                                             BoolCode(rmt_delivered),
                                             most_recent_message_id, <<>>)>>
    /\ pc' = "status_query"
    /\ op' = "status_query"
    /\ sync_out' = <<>>
    /\ start_id' = message_id
    /\ arg' = 0
    /\ request' = <<>>
    /\ UNCHANGED <<PY3, sync_channel, async_channel, sync_in, async_in, session_vars,
                   outcome, full_data, reqRaw, fatal_depth, nframes>>
    /\ UNCHANGED <<srq_vars, codec_vars, timeout_vars>>

\* the pair status_query returns: bit 4 of the status byte, and the status byte
StatusResult(control_code) ==
    LET status == control_code % 256
    IN  <<((status \div 16) % 2) * 16, status>>

\* status_query reads the AsyncStatusResponse
StatusQueryRead ==
    /\ pc = "status_query"
    /\ async_in # <<>>
    /\ LET header == Head(async_in)
           r == _message_exceptions(header, message_types.AsyncStatusResponse)
       IN  IF r.kind # "ok"
           THEN ReadFailed(r, sync_in, Tail(async_in)) /\ UNCHANGED failed_frame
           ELSE /\ async_in' = Tail(async_in)
                /\ rmt_delivered' = _RMT_delivered(header.type, header.payload)
                /\ Return(op, StatusResult(header.control))
                /\ UNCHANGED <<PY3, sync_channel, async_channel, sync_in, sync_out,
                               async_out, message_id, most_recent_message_id,
                               overlap_mode, session_id, MAXIMUM_MESSAGE_SIZE, op,
                               full_data, reqRaw, nframes, start_id, arg, request>>
    /\ UNCHANGED <<srq_vars, codec_vars, timeout_vars>>

\* an operation that sends the frame f on the asynchronous channel and reads
\* the answer to it
AsyncCall(o, f) ==
    /\ async_out' = <<f>>
    /\ pc' = o
    /\ op' = o
    /\ sync_out' = <<>>
    /\ start_id' = message_id
    /\ arg' = 0
    /\ request' = <<>>
    /\ UNCHANGED <<PY3, sync_channel, async_channel, sync_in, async_in, session_vars,
                   outcome, full_data, reqRaw, fatal_depth, nframes>>
    /\ UNCHANGED <<srq_vars, codec_vars, timeout_vars>>

\* what the operations return of the header they read
ControlOf(header) == <<header.control>>
LockInfoOf(header) == <<header.control, header.param>>
NothingOf(header) == <<>>
ResultOf(o, header) ==
    CASE o = "lock_info" -> LockInfoOf(header)
      [] o \in {"request_lock", "release_lock"} -> ControlOf(header)
      [] OTHER -> NothingOf(header)

\* the read of such an operation, which returns what the operation takes from
\* the frame of the type expected
AsyncAnswer(expected_message_type) ==
    /\ async_in # <<>>
    /\ LET header == Head(async_in)
           r == _message_exceptions(header, expected_message_type)
       IN  IF r.kind # "ok"
           THEN ReadFailed(r, sync_in, Tail(async_in)) /\ UNCHANGED failed_frame
           ELSE /\ async_in' = Tail(async_in)
                /\ rmt_delivered' = _RMT_delivered(header.type, header.payload)
                /\ Return(op, ResultOf(op, header))
                /\ UNCHANGED <<PY3, sync_channel, async_channel, sync_in, sync_out,
                               async_out, message_id, most_recent_message_id,
                               overlap_mode, session_id, MAXIMUM_MESSAGE_SIZE, op,
                               full_data, reqRaw, nframes, start_id, arg, request>>
    /\ UNCHANGED <<srq_vars, codec_vars, timeout_vars>>

\* HiSLIP.lock_info
LockInfo ==
    /\ Ready
    /\ AsyncCall("lock_info",
                 _create_hislip_message(message_types.AsyncLockInfo, 0, U32(0), <<>>))

LockInfoRead ==
    /\ pc = "lock_info"
    /\ AsyncAnswer(message_types.AsyncLockInfoResponse)

\* HiSLIP.remote_local
RemoteLocal(request_code) ==
    /\ Ready
    /\ AsyncCall("remote_local",
                 _create_hislip_message(message_types.AsyncRemoteLocalControl, request_code,
                                        most_recent_message_id, <<>>))

RemoteLocalRead ==
    /\ pc = "remote_local"
    /\ AsyncAnswer(message_types.AsyncRemoteLocalResponse)

\* HiSLIP.request_lock
RequestLock(lock_string) ==
    /\ Ready
    /\ AsyncCall("request_lock",
                 _create_hislip_message(message_types.AsyncLock, 1, U32(LOCK_TIMEOUT),
                                        lock_string))

RequestLockRead ==
    /\ pc = "request_lock"
    /\ AsyncAnswer(message_types.AsyncLockResponse)

\* the message id release_lock sends (lines 709-713)
ReleaseId(recent) == IF recent = _INITIAL_MESSAGE_ID THEN U32(0) ELSE recent

\* HiSLIP.release_lock
ReleaseLock ==
    /\ Ready
    /\ AsyncCall("release_lock",
                 _create_hislip_message(message_types.AsyncLock, 0,
                                        ReleaseId(most_recent_message_id), <<>>))

ReleaseLockRead ==
    /\ pc = "release_lock"
    /\ AsyncAnswer(message_types.AsyncLockResponse)

\* the timeouts handed to set_timeout and set_lock_timeout
Timeouts == {_SOCKET_TIMEOUT, 5}
LockTimeouts == {_LOCK_TIMEOUT, 10}

\* _HiSLIP.set_timeout
SetTimeout(timeout) ==
    /\ pc = "idle"
    /\ SOCKET_TIMEOUT' = timeout
    /\ Return("set_timeout", <<>>)
    /\ op' = "set_timeout"
    /\ arg' = timeout
    /\ sync_out' = <<>>
    /\ async_out' = <<>>
    /\ start_id' = message_id
    /\ request' = <<>>
    /\ UNCHANGED <<PY3, sync_channel, async_channel, sync_in, async_in, session_vars,
                   full_data, reqRaw, nframes, LOCK_TIMEOUT>>
    /\ UNCHANGED <<srq_vars, codec_vars>>

\* _HiSLIP.set_lock_timeout
SetLockTimeout(timeout) ==
    /\ pc = "idle"
    /\ LOCK_TIMEOUT' = timeout
    /\ Return("set_lock_timeout", <<>>)
    /\ op' = "set_lock_timeout"
    /\ arg' = timeout
    /\ sync_out' = <<>>
    /\ async_out' = <<>>
    /\ start_id' = message_id
    /\ request' = <<>>
    /\ UNCHANGED <<PY3, sync_channel, async_channel, sync_in, async_in, session_vars,
                   full_data, reqRaw, nframes, SOCKET_TIMEOUT>>
    /\ UNCHANGED <<srq_vars, codec_vars>>

\* the caller has the result of the operation and goes on
Resume ==
    /\ pc = "returned"
    /\ pc' = "idle"
    /\ op' = "none"
    /\ outcome' = Outcome("none", "none", <<>>)
    /\ sync_out' = <<>>
    /\ async_out' = <<>>
    /\ full_data' = <<>>
    /\ reqRaw' = FALSE
    /\ start_id' = Unset
    /\ arg' = 0
    /\ request' = <<>>
    /\ UNCHANGED <<PY3, sync_channel, async_channel, sync_in, async_in, session_vars,
                   fatal_depth, nframes>>
    /\ UNCHANGED <<srq_vars, codec_vars, timeout_vars>>

\* ------------------------------------------------------ service requests
\* Each call of start_SRQ_thread starts one SRQ_wait thread that runs
\* wait_for_SRQ(callback); waiters[i] is where the i-th of them is:
\*   poll       in self.async_poll.poll(None)
\*   read       poll has returned, _read_hislip_message is next
\*   callback   the AsyncServiceRequest was read and callback() is running
\*   check      in release_srq_lock, before the test of srq_lock.locked()
\*   releasing  the test was true, srq_lock.release() is next
\*   done       wait_for_SRQ has returned
\*   failed     an exception has ended the thread
\* The thread is started with a callback.

\* start_SRQ_thread: srq_lock is acquired unless it is locked already, and the
\* thread is started
StartSRQThread ==
    /\ pc = "idle"
    /\ message_id # Unset
    /\ Len(waiters) < MaxWaiters
    /\ srq_lock' = TRUE
    /\ waiters' = Append(waiters, "poll")
    /\ joined' = FALSE
    /\ UNCHANGED <<PY3, sync_channel, async_channel, sync_in, async_in, sync_out, async_out,
                   session_vars, caller_vars, nframes, callbacks, srq_sent>>
    /\ UNCHANGED <<codec_vars, timeout_vars>>

\* the instrument requests service on an established session
ServerSendSRQ ==
    /\ async_channel = "open"
    /\ message_id # Unset
    /\ pc \notin {"connect_sync", "connect_async"}
    /\ srq_sent < MaxSRQ
    /\ Len(async_in) <= MaxQueue
    /\ async_in' = Append(async_in,
                          Frame(message_types.AsyncServiceRequest, 0, U32(0), <<>>))
    /\ srq_sent' = srq_sent + 1
    /\ UNCHANGED <<PY3, sync_channel, async_channel, sync_in, sync_out, async_out,
                   session_vars, caller_vars, nframes, srq_lock, waiters, callbacks, joined>>
    /\ UNCHANGED <<codec_vars, timeout_vars>>

\* poll(None) returns in the i-th thread: the asynchronous socket is readable,
\* or it has been closed
WaiterPoll(i) ==
    /\ i \in DOMAIN waiters
    /\ waiters[i] = "poll"
    /\ async_in # <<>> \/ async_channel # "open"
    /\ waiters' = [waiters EXCEPT ![i] = "read"]
    /\ UNCHANGED <<PY3, sync_channel, async_channel, sync_in, async_in, sync_out, async_out,
                   session_vars, caller_vars, nframes, srq_lock, callbacks, srq_sent, joined>>
    /\ UNCHANGED <<codec_vars, timeout_vars>>

\* what wait_for_SRQ makes of the frame it has read
MutWaiterTakesAny(header) == _message_exceptions(header, -1)
WaiterTakes(header) == _message_exceptions(header, message_types.AsyncServiceRequest)

\* _raise_fatal_error(error_code, 1) in the i-th thread: the FatalError frame
\* is sent, both channels are closed and connect is called, which sets the
\* session up again (ok) or does not; HiSLIPFatalError ends the thread.  A read
\* the caller is in loses its socket and ends in an exception of the caller.
WaiterFatal(i, error_code) ==
    /\ waiters' = [waiters EXCEPT ![i] = "failed"]
    /\ UNCHANGED <<PY3, MAXIMUM_MESSAGE_SIZE, op, full_data, reqRaw, start_id, arg, request,
                   srq_lock, callbacks, srq_sent, joined>>
    /\ IF sync_channel # "open"
       THEN \* send on a closed socket: OSError ends the thread
            UNCHANGED <<sync_channel, async_channel, sync_in, async_in, sync_out, async_out,
                        message_id, most_recent_message_id, overlap_mode, session_id,
                        rmt_delivered, pc, outcome, fatal_depth, nframes>>
       ELSE LET sent == Append(sync_out,
                          _create_hislip_message(message_types.FatalError, error_code,
                                                 U32(0), <<>>))
            IN  /\ sync_in' = <<>>
                /\ async_in' = <<>>
                /\ \/ \E c \in ControlCodes, s \in SessionIds :
                          /\ sync_channel' = "open"
                          /\ async_channel' = "open"
                          /\ sync_out' = Append(sent,
                                _create_hislip_message(message_types.Initialize, 0,
                                                       <<_PROTOCOL_VERSION_MAX, 23116>>, <<>>))
                          /\ async_out' = Append(async_out,
                                _create_hislip_message(message_types.AsyncInitialize, 0,
                                                       U32(s), <<>>))
                          /\ overlap_mode' = c
                          /\ session_id' = s
                          /\ message_id' = _INITIAL_MESSAGE_ID
                          /\ most_recent_message_id' = _INITIAL_MESSAGE_ID
                          /\ rmt_delivered' = FALSE
                          /\ nframes' = 0
                   \/ /\ sync_channel' = "closed"
                      /\ async_channel' = "closed"
                      /\ sync_out' = sent
                      /\ UNCHANGED <<async_out, overlap_mode, session_id, message_id,
                                     most_recent_message_id, rmt_delivered, nframes>>
                /\ IF pc \in SyncReaders \cup AsyncReaders
                   THEN \E exc \in {"OSError", "HiSLIPFatalError"} : Raise(exc)
                   ELSE UNCHANGED <<pc, outcome, fatal_depth>>

\* the i-th thread reads the asynchronous channel, expecting an
\* AsyncServiceRequest, and calls callback
WaiterRead(i) ==
    /\ i \in DOMAIN waiters
    /\ waiters[i] = "read"
    /\ IF async_channel # "open"
       THEN \* recv on a closed socket: OSError ends the thread
            /\ waiters' = [waiters EXCEPT ![i] = "failed"]
            /\ UNCHANGED <<PY3, sync_channel, async_channel, sync_in, async_in, sync_out,
                           async_out, session_vars, caller_vars, nframes, srq_lock,
                           callbacks, srq_sent, joined>>
       ELSE IF async_in = <<>>
       THEN \* another reader took the frame: socket.timeout
            WaiterFatal(i, 1)
       ELSE LET header == Head(async_in)
                r == WaiterTakes(header)
            IN  CASE r.kind = "ok" ->
                        /\ async_in' = Tail(async_in)
                        /\ rmt_delivered' = _RMT_delivered(header.type, header.payload)
                        /\ waiters' = [waiters EXCEPT ![i] = "callback"]
                        /\ callbacks' = callbacks + 1
                        /\ UNCHANGED <<PY3, sync_channel, async_channel, sync_in, sync_out,
                                       async_out, message_id, most_recent_message_id,
                                       overlap_mode, session_id, MAXIMUM_MESSAGE_SIZE,
                                       caller_vars, nframes, srq_lock, srq_sent, joined>>
                  [] r.kind = "fatal_local" -> WaiterFatal(i, r.code)
                  [] r.kind = "error_local" ->
                        /\ async_in' = Tail(async_in)
                        /\ sync_out' = Append(sync_out,
                              _create_hislip_message(message_types.Error, r.code, U32(0), <<>>))
                        /\ waiters' = [waiters EXCEPT ![i] = "failed"]
                        /\ UNCHANGED <<PY3, sync_channel, async_channel, sync_in, async_out,
                                       session_vars, caller_vars, nframes, srq_lock,
                                       callbacks, srq_sent, joined>>
                  [] r.kind \in {"error_remote", "fatal_remote"} ->
                        /\ async_in' = Tail(async_in)
                        /\ waiters' = [waiters EXCEPT ![i] = "failed"]
                        /\ UNCHANGED <<PY3, sync_channel, async_channel, sync_in, sync_out,
                                       async_out, session_vars, caller_vars, nframes,
                                       srq_lock, callbacks, srq_sent, joined>>
    /\ UNCHANGED <<codec_vars, timeout_vars>>

\* callback() returns in the i-th thread, which enters release_srq_lock
WaiterCallbackReturns(i) ==
    /\ i \in DOMAIN waiters
    /\ waiters[i] = "callback"
    /\ waiters' = [waiters EXCEPT ![i] = "check"]
    /\ UNCHANGED <<PY3, sync_channel, async_channel, sync_in, async_in, sync_out, async_out,
                   session_vars, caller_vars, nframes, srq_lock, callbacks, srq_sent, joined>>
    /\ UNCHANGED <<codec_vars, timeout_vars>>

\* release_srq_lock: if self.srq_lock.locked()
WaiterCheckLock(i) ==
    /\ i \in DOMAIN waiters
    /\ waiters[i] = "check"
    /\ waiters' = [waiters EXCEPT ![i] = IF srq_lock THEN "releasing" ELSE "done"]
    /\ UNCHANGED <<PY3, sync_channel, async_channel, sync_in, async_in, sync_out, async_out,
                   session_vars, caller_vars, nframes, srq_lock, callbacks, srq_sent, joined>>
    /\ UNCHANGED <<codec_vars, timeout_vars>>

\* release_srq_lock: self.srq_lock.release(), a RuntimeError when another
\* thread has released the lock since the test
WaiterRelease(i) ==
    /\ i \in DOMAIN waiters
    /\ waiters[i] = "releasing"
    /\ srq_lock' = FALSE
    /\ waiters' = [waiters EXCEPT ![i] = IF srq_lock THEN "done" ELSE "failed"]
    /\ UNCHANGED <<PY3, sync_channel, async_channel, sync_in, async_in, sync_out, async_out,
                   session_vars, caller_vars, nframes, callbacks, srq_sent, joined>>
    /\ UNCHANGED <<codec_vars, timeout_vars>>

\* the caller joins the SRQ_wait thread by acquiring srq_lock
JoinSRQ ==
    /\ pc = "idle"
    /\ waiters # <<>>
    /\ ~joined
    /\ ~srq_lock
    /\ srq_lock' = TRUE
    /\ joined' = TRUE
    /\ UNCHANGED <<PY3, sync_channel, async_channel, sync_in, async_in, sync_out, async_out,
                   session_vars, caller_vars, nframes, waiters, callbacks, srq_sent>>
    /\ UNCHANGED <<codec_vars, timeout_vars>>

\* ------------------------------------------------------------ frame codec
\* The frame on the wire, byte by byte.  A message parameter is held as its two
\* 16-bit halves, which is what struct.pack('>I') of a 32-bit word and
\* struct.pack('>H') of each of two subfields both put on the wire.

\* struct.pack('>H', n) and struct.unpack('>H', b)[0]
PackH(n) == <<n \div 256, n % 256>>
UnpackH(b) == b[1] * 256 + b[2]

\* str(n) for n >= 0: the characters of its decimal digits
RECURSIVE Decimal(_)
Decimal(n) == IF n < 10 THEN <<48 + n>> ELSE Append(Decimal(n \div 10), 48 + (n % 10))

\* a str, and a bytes object, of the given code units
Str(chars) == [kind |-> "str", chars |-> chars]
BytesValue(b) == [kind |-> "bytes", chars |-> b]

\* b.decode() gives text: every byte of b is ASCII.  (The bytes of 0x80 and
\* more in CodecBytes form no UTF-8 sequence: UnicodeDecodeError under both
\* interpreters.)
Decodable(b) == \A i \in DOMAIN b : b[i] < 128

\* the bytes _create_hislip_message returns for the frame f
MessageBytes(f) ==
    <<72, 83, f.type, f.control>> \o PackH(f.param[1]) \o PackH(f.param[2])
       \o PackQ(Len(f.payload)) \o f.payload

\* what a function of the reader gives: a value, or an exception
Value(v) == [exc |-> "none", value |-> v]
Raised(e) == [exc |-> e, value |-> <<>>]

_get_message_parameter(raw_message_parameter, message_type) ==
    IF message_type = message_types.Initialize
    THEN IF Decodable(SubSeq(raw_message_parameter, 3, 4))
         THEN Value(<<UnpackH(SubSeq(raw_message_parameter, 1, 2)),
                      Str(SubSeq(raw_message_parameter, 3, 4))>>)
         ELSE Raised("UnicodeDecodeError")
    ELSE Value(<<UnpackH(SubSeq(raw_message_parameter, 1, 2)),
                 UnpackH(SubSeq(raw_message_parameter, 3, 4))>>)

_read_hislip_data(raw_data, message_type) ==
    IF message_type = message_types.AsyncMaximumMessageSizeResponse
    THEN IF Len(raw_data) = 8
         THEN Value(Str(Decimal(UnpackQ(raw_data))))
         ELSE Raised("struct.error")
    ELSE IF message_type \in {message_types.Data, message_types.DataEnd}
    THEN Value(BytesValue(raw_data))
    ELSE IF Decodable(raw_data)
    THEN Value(Str(raw_data))
    ELSE Raised("UnicodeDecodeError")

\* _split_hislip_header on the first 16 bytes of m and, when the payload length
\* is not 0, _read_hislip_data on the bytes that follow (lines 347-353)
ReadBytes(m) ==
    LET message_type == m[3]
        control_code == m[4]
        parameter == _get_message_parameter(SubSeq(m, 5, 8), message_type)
        payload_length == UnpackQ(SubSeq(m, 9, 16))
        data == IF payload_length > 0
                THEN _read_hislip_data(SubSeq(m, 17, 16 + payload_length), message_type)
                ELSE Value(Str(<<>>))
    IN  IF parameter.exc # "none" THEN Raised(parameter.exc)
        ELSE IF data.exc # "none" THEN Raised(data.exc)
        ELSE Value([type |-> message_type, control |-> control_code,
                    param |-> parameter.value, payload |-> data.value])

\* the frames handed to the codec: every message type; payloads of up to
\* MaxCodecLen bytes of CodecBytes and the eight bytes of a size
CodecBytes == {NL, 65, 200}
CodecControls == {0, 1, 255}
CodecParams == {<<0, 0>>, <<_PROTOCOL_VERSION_MAX, 23116>>, <<65535, 65280>>, <<1, 51265>>}
CodecPayloads == SeqsUpTo(CodecBytes, MaxCodecLen) \cup {PackQ(s) : s \in ServerSizes}
CodecFrames ==
    {Frame(t, c, p, d) : t \in 0..25, c \in CodecControls, p \in CodecParams,
                         d \in CodecPayloads}

\* _create_hislip_message makes the message of the frame f
CodecEncode(f) ==
    /\ message = <<>>
    /\ codec_in' = <<f>>
    /\ message' = MessageBytes(f)
    /\ codec_out' = <<>>
    /\ UNCHANGED <<PY3, sync_channel, async_channel, sync_in, async_in, sync_out, async_out,
                   session_vars, caller_vars, nframes, srq_vars, timeout_vars>>

\* the reader takes the message apart
CodecDecode ==
    /\ message # <<>>
    /\ codec_out = <<>>
    /\ codec_out' = <<ReadBytes(message)>>
    /\ UNCHANGED <<PY3, sync_channel, async_channel, sync_in, async_in, sync_out, async_out,
                   session_vars, caller_vars, nframes, srq_vars, timeout_vars,
                   codec_in, message>>

\* the caller has the frame that was read and goes on
CodecResume ==
    /\ codec_out # <<>>
    /\ codec_in' = <<>>
    /\ message' = <<>>
    /\ codec_out' = <<>>
    /\ UNCHANGED <<PY3, sync_channel, async_channel, sync_in, async_in, sync_out, async_out,
                   session_vars, caller_vars, nframes, srq_vars, timeout_vars>>

\* ----------------------------------------------------------- specification
\* The session: every operation, against any server.
Next ==
    \/ Resume
    \/ Connect
    \/ ConnectReadInitializeResponse
    \/ ConnectReadAsyncInitializeResponse
    \/ \E data_str \in SessionPayloads : Write(data_str, MaxFrames)
    \/ Trigger(MaxFrames)
    \/ \E data_str \in SessionPayloads, raw \in BOOLEAN : Ask(data_str, raw, MaxFrames)
    \/ AskRead
    \/ \E message_size \in RequestSizes : SetMaxMessageSize(message_size)
    \/ SetMaxMessageSizeRead
    \/ DeviceClear
    \/ DeviceClearReadAsync
    \/ DeviceClearReadSync
    \/ StatusQuery
    \/ StatusQueryRead
    \/ LockInfo
    \/ LockInfoRead
    \/ \E request_code \in ControlCodes : RemoteLocal(request_code)
    \/ RemoteLocalRead
    \/ \E lock_string \in SessionPayloads : RequestLock(lock_string)
    \/ RequestLockRead
    \/ ReleaseLock
    \/ ReleaseLockRead
    \/ ReadTimeout
    \/ \E f \in SyncServerFrames : ServerSendSync(f)
    \/ \E f \in AsyncServerFrames : ServerSendAsync(f)

Spec == Init /\ [][Next]_vars

\* Data transfer: every data_str up to MaxLen bytes under every negotiated
\* size, and runs long enough for the message id to wrap, against a server
\* that keeps to the protocol.
NextData ==
    \/ Resume
    \/ Connect
    \/ ConnectReadInitializeResponse
    \/ ConnectReadAsyncInitializeResponse
    \/ \E data_str \in Payloads : Write(data_str, WrapFrames)
    \/ Trigger(WrapFrames)
    \/ \E raw \in BOOLEAN : Ask(<<65>>, raw, WrapFrames)
    \/ AskRead
    \/ \E message_size \in RequestSizes : SetMaxMessageSize(message_size)
    \/ SetMaxMessageSizeRead
    \/ DeviceClear
    \/ DeviceClearReadAsync
    \/ DeviceClearReadSync
    \/ \E f \in HonestSyncFrames : ServerSendSync(f)
    \/ \E f \in HonestAsyncFrames : ServerSendAsync(f)

SpecData == Init /\ [][NextData]_vars

\* Service requests: SRQ_wait threads beside a caller that connects and
\* queries the status, against a server that keeps to the protocol and
\* requests service when it likes.
StatusFrames ==
    IF pc = "status_query"
    THEN {Frame(message_types.AsyncStatusResponse, c, U32(0), <<>>) : c \in StatusBytes}
    ELSE {}

NextSRQ ==
    \/ Resume
    \/ Connect
    \/ ConnectReadInitializeResponse
    \/ ConnectReadAsyncInitializeResponse
    \/ StatusQuery
    \/ StatusQueryRead
    \/ ReadTimeout
    \/ \E f \in HonestSyncFrames : ServerSendSync(f)
    \/ \E f \in HonestAsyncFrames \cup StatusFrames : ServerSendAsync(f)
    \/ ServerSendSRQ
    \/ StartSRQThread
    \/ JoinSRQ
    \/ \E i \in 1..MaxWaiters : WaiterPoll(i)
    \/ \E i \in 1..MaxWaiters : WaiterRead(i)
    \/ \E i \in 1..MaxWaiters : WaiterCallbackReturns(i)
    \/ \E i \in 1..MaxWaiters : WaiterCheckLock(i)
    \/ \E i \in 1..MaxWaiters : WaiterRelease(i)

SpecSRQ == Init /\ [][NextSRQ]_vars

\* Service requests under scheduling: a thread that can take its next step
\* takes it, a callback returns, a read of the caller that has its frame
\* returns, and one that waits times out after SOCKET_TIMEOUT unless the
\* server, which keeps to the protocol, answers.  The caller's choice of
\* operations and the instrument's requests are under no obligation.
SpecSRQFair ==
    /\ SpecSRQ
    /\ \A i \in 1..MaxWaiters :
          /\ WF_vars(WaiterPoll(i))
          /\ WF_vars(WaiterRead(i))
          /\ WF_vars(WaiterCallbackReturns(i))
          /\ WF_vars(WaiterCheckLock(i))
          /\ WF_vars(WaiterRelease(i))
    /\ WF_vars(StatusQueryRead)
    /\ WF_vars(ConnectReadInitializeResponse)
    /\ WF_vars(ConnectReadAsyncInitializeResponse)
    /\ WF_vars(ReadTimeout)
    /\ WF_vars(\E f \in HonestSyncFrames : ServerSendSync(f))
    /\ WF_vars(\E f \in HonestAsyncFrames \cup StatusFrames : ServerSendAsync(f))

\* The frame codec: frames are encoded, and the bytes read back.
NextCodec ==
    \/ \E f \in CodecFrames : CodecEncode(f)
    \/ CodecDecode
    \/ CodecResume

SpecCodec == Init /\ [][NextCodec]_vars

\* Queries: write and ask against any server, which may have sent the response
\* to the query while an earlier frame is still unread on the channel.
ResponseFrames ==
    IF pc = "ask" /\ Len(full_data) < MaxData
    THEN {Frame(td[1], 0, most_recent_message_id, td[2]) : td \in ServerData}
    ELSE {}

\* the server sends frame f behind a frame that is still unread
ServerSendBehind(f) ==
    /\ sync_channel = "open"
    /\ sync_in # <<>>
    /\ Len(sync_in) < MaxAskQueue
    /\ sync_in' = Append(sync_in, f)
    /\ UNCHANGED <<PY3, sync_channel, async_channel, async_in, sync_out, async_out,
                   session_vars, caller_vars, nframes>>
    /\ UNCHANGED <<srq_vars, codec_vars, timeout_vars>>

NextAsk ==
    \/ Resume
    \/ Connect
    \/ ConnectReadInitializeResponse
    \/ ConnectReadAsyncInitializeResponse
    \/ \E data_str \in SessionPayloads : Write(data_str, MaxFrames)
    \/ \E data_str \in SessionPayloads, raw \in BOOLEAN : Ask(data_str, raw, MaxFrames)
    \/ AskRead
    \/ ReadTimeout
    \/ \E f \in SyncServerFrames : ServerSendSync(f)
    \/ \E f \in ResponseFrames : ServerSendBehind(f)
    \/ \E f \in HonestAsyncFrames : ServerSendAsync(f)

SpecAsk == Init /\ [][NextAsk]_vars

\* Settings and reconnection: the caller sets the timeouts, negotiates the
\* message size, writes and requests the lock, against any server; a read that
\* fails with a local fatal error reconnects.
NextReconnect ==
    \/ Resume
    \/ Connect
    \/ ConnectReadInitializeResponse
    \/ ConnectReadAsyncInitializeResponse
    \/ \E data_str \in SessionPayloads : Write(data_str, MaxFrames)
    \/ \E message_size \in RequestSizes : SetMaxMessageSize(message_size)
    \/ SetMaxMessageSizeRead
    \/ \E timeout \in Timeouts : SetTimeout(timeout)
    \/ \E timeout \in LockTimeouts : SetLockTimeout(timeout)
    \/ \E lock_string \in SessionPayloads : RequestLock(lock_string)
    \/ RequestLockRead
    \/ ReadTimeout
    \/ \E f \in SyncServerFrames : ServerSendSync(f)
    \/ \E f \in AsyncServerFrames : ServerSendAsync(f)

SpecReconnect == Init /\ [][NextReconnect]_vars

\* ----------------------------------------------------------------- claims
\* a + n modulo 2^32 on the two halves, for 0 <= n < 2^16
IdPlus(a, n) ==
    LET t == a[2] + n
    IN  <<(a[1] + t \div 65536) % 65536, t % 65536>>

\* (0xFFFFFF00 + 2*N) mod 2^32 for N < 2^15: 0xFFFFFF00 + 2*N up to N = 127,
\* 2*N - 0x100 from N = 128 on
IdAfter(N) == IF N < 128 THEN <<65535, 65280 + 2 * N>> ELSE <<0, 2 * N - 256>>

\* C1: on a session that connect or device_clear has set up and that has since
\* sent N Data, DataEnd and Trigger frames, message_id is
\* (0xFFFFFF00 + 2*N) mod 2^32; after 128 frames it is 0.
C1_MessageIdAfterNFrames ==
    message_id # Unset => message_id = IdAfter(nframes)

\* the 128th frame carried 0xFFFFFFFE and the counter has wrapped to 0
C1_Witness ==
    /\ pc = "returned"
    /\ op = "write"
    /\ nframes = 128
    /\ most_recent_message_id = <<65535, 65534>>
    /\ message_id = <<0, 0>>

\* C2: on a connected session message_id is even and is not 0xFFFFFFFF, and no
\* Data, DataEnd or Trigger frame the client sends carries 0xFFFFFFFF.
C2_MessageIdEvenNeverUnknown ==
    message_id # Unset =>
        /\ message_id[2] % 2 = 0
        /\ message_id # <<65535, 65535>>
        /\ \A i \in 1..Len(sync_out) :
              sync_out[i].type \in {message_types.Data, message_types.DataEnd,
                                    message_types.Trigger}
                 => sync_out[i].param # <<65535, 65535>>

\* a Trigger frame carried 0xFFFFFFFE, the id next to the reserved one
C2_Witness ==
    /\ pc = "returned"
    /\ op = "trigger"
    /\ sync_out[1].type = message_types.Trigger
    /\ sync_out[1].param = <<65535, 65534>>
    /\ message_id = <<0, 0>>

\* the payload with a newline appended if it does not end with one
Terminated(payload) ==
    IF payload[Len(payload)] = NL THEN payload ELSE payload \o <<NL>>

\* the payloads of a sequence of frames, concatenated in order
RECURSIVE Concat(_)
Concat(frames) ==
    IF frames = <<>> THEN <<>> ELSE Head(frames).payload \o Concat(Tail(frames))

C4_WriteFrameIds ==
    (pc = "returned" /\ op = "write" /\ outcome.exc = "none") =>
        /\ Len(sync_out) >= 1
        /\ \A k \in 0..(Len(sync_out) - 1) : sync_out[k + 1].param = IdPlus(start_id, 2 * k)
        /\ sync_out[Len(sync_out)].type = message_types.DataEnd
        /\ most_recent_message_id = sync_out[Len(sync_out)].param
        /\ message_id = IdPlus(sync_out[Len(sync_out)].param, 2)

\* a write of three frames that begins at 0xFFFFFFFE: its ids wrap
C4_Witness ==
    /\ pc = "returned"
    /\ op = "write"
    /\ start_id = <<65535, 65534>>
    /\ Len(sync_out) = 3
    /\ most_recent_message_id = <<0, 2>>

\* ask takes the next frame off the synchronous channel
AskReads == pc = "ask" /\ sync_in # <<>> /\ sync_in' = Tail(sync_in)

\* a Data or DataEnd frame
IsReply(f) == f.type \in {message_types.Data, message_types.DataEnd}

\* a message parameter ask accepts for the query it has written
AcceptedId(p) ==
    \/ p = most_recent_message_id
    \/ overlap_mode = 0 /\ p = <<65535, 65535>>

\* ask goes on after a Data frame with its payload appended, and returns after a
\* DataEnd frame all that it has assembled
TakesPayload(f) ==
    IF f.type = message_types.DataEnd
    THEN /\ pc' = "returned"
         /\ outcome'.exc = "none"
         /\ outcome'.value = full_data \o f.payload
    ELSE /\ pc' = "ask"
         /\ full_data' = full_data \o f.payload

\* ask returns an empty result
ReturnsEmpty == pc' = "returned" /\ outcome'.exc = "none" /\ outcome'.value = <<>>

\* C5: ask appends the payload of every accepted Data frame it reads and returns,
\* at the accepted DataEnd frame, the payloads concatenated in arrival order.
C5_AskReturnsConcatenation ==
    [][(AskReads /\ IsReply(Head(sync_in)) /\ AcceptedId(Head(sync_in).param))
          => TakesPayload(Head(sync_in))]_vars

\* C6: a Data or DataEnd frame that carries 0xFFFFFFFF is taken like a frame
\* that carries most_recent_message_id when overlap_mode is 0, and makes ask
\* return an empty result when overlap_mode is not 0.
C6_UnknownIdAcceptedIffSynchronized ==
    [][(AskReads /\ IsReply(Head(sync_in)) /\ Head(sync_in).param = <<65535, 65535>>)
          => IF overlap_mode = 0 THEN TakesPayload(Head(sync_in)) ELSE ReturnsEmpty]_vars

\* C7: a Data or DataEnd frame whose message parameter ask does not accept makes
\* it return an empty result: no exception, no frame sent, no channel closed.
C7_MismatchedIdSilentlyDiscarded ==
    [][(AskReads /\ IsReply(Head(sync_in)) /\ ~AcceptedId(Head(sync_in).param))
          => /\ ReturnsEmpty
             /\ sync_out' = sync_out
             /\ async_out' = async_out
             /\ sync_channel' = sync_channel
             /\ async_channel' = async_channel]_vars

\* ask waits for a frame, none has arrived and none arrives
AskTimesOut == pc = "ask" /\ sync_in = <<>> /\ sync_in' = <<>>

\* the FatalError frame with error code 1 is among the frames sent
SentFatalError1 ==
    \E i \in 1..Len(sync_out) :
        sync_out[i] = Frame(message_types.FatalError, 1, U32(0), <<>>)

\* C8, as the code has it: when no frame arrives ask does not raise
\* TimeoutError; it sends a FatalError frame with code 1 on the synchronous
\* channel, closes both channels and reconnects, and it ends with an exception,
\* HiSLIPFatalError when the reconnect has succeeded.
C8_AskTimeoutIsFatalError ==
    /\ [][AskTimesOut
            => /\ Len(sync_out') = Len(sync_out) + 2
               /\ sync_out'[Len(sync_out) + 1] = Frame(message_types.FatalError, 1, U32(0), <<>>)
               /\ sync_out'[Len(sync_out) + 2].type = message_types.Initialize
               /\ async_channel' = "closed"
               /\ pc' = "connect_sync"]_vars
    /\ [][(op = "ask" /\ pc = "connect_async" /\ pc' = "returned" /\ async_in # <<>>
              /\ Head(async_in).type = message_types.AsyncInitializeResponse)
            => outcome'.exc = "HiSLIPFatalError"]_vars
    /\ [](outcome.exc # "TimeoutError")
    /\ []((op = "ask" /\ pc = "returned" /\ SentFatalError1) => outcome.exc # "none")

\* ask has timed out, the session is connected again and ask has raised
\* HiSLIPFatalError
C8_Witness ==
    /\ pc = "returned"
    /\ op = "ask"
    /\ outcome.exc = "HiSLIPFatalError"
    /\ Len(sync_out) = 3
    /\ sync_out[2] = Frame(message_types.FatalError, 1, U32(0), <<>>)
    /\ sync_channel = "open"
    /\ async_channel = "open"
    /\ message_id = <<65535, 65280>>

\* C8, as the specification has it: when no frame arrives ask raises
\* TimeoutError.
C8_AskTimeoutRaisesTimeoutError ==
    [][AskTimesOut => (pc' = "returned" /\ outcome'.exc = "TimeoutError")]_vars

\* C9: a device_clear that succeeds leaves message_id 0xFFFFFF00,
\* most_recent_message_id 0, rmt_delivered false and overlap_mode the control
\* code of the DeviceClearAcknowledge frame.
C9_DeviceClearResetsSession ==
    [][(pc = "dc_sync" /\ pc' = "returned" /\ outcome'.exc = "none")
          => /\ sync_in # <<>>
             /\ Head(sync_in).type = message_types.DeviceClearAcknowledge
             /\ message_id' = <<65535, 65280>>
             /\ most_recent_message_id' = <<0, 0>>
             /\ rmt_delivered' = FALSE
             /\ overlap_mode' = Head(sync_in).control]_vars

\* a device_clear after two frames, acknowledged with control code 1 where the
\* AsyncDeviceClearAcknowledge had 0
C9_Witness ==
    /\ pc = "returned"
    /\ op = "device_clear"
    /\ outcome.exc = "none"
    /\ start_id = <<65535, 65284>>
    /\ arg = 0
    /\ overlap_mode = 1
    /\ message_id = <<65535, 65280>>
    /\ most_recent_message_id = <<0, 0>>

\* C10: a set_max_message_size(n) that completes on a response whose payload
\* is s leaves MAXIMUM_MESSAGE_SIZE = min(n, s).
C10_NegotiatedSizeIsMin ==
    [][(pc = "set_max_message_size" /\ pc' = "returned" /\ outcome'.exc = "none")
          => /\ async_in # <<>>
             /\ \E s \in ServerSizes :
                   /\ Head(async_in).payload = PackQ(s)
                   /\ MAXIMUM_MESSAGE_SIZE' = IF arg <= s THEN arg ELSE s]_vars

\* 18 asked for, 17 answered: the server's size is the smaller one
C10_Witness ==
    /\ pc = "returned"
    /\ op = "set_max_message_size"
    /\ outcome.exc = "none"
    /\ arg = 18
    /\ MAXIMUM_MESSAGE_SIZE = 17

\* C11: MAXIMUM_MESSAGE_SIZE is at least 272 in every state, whatever
\* set_max_message_size was called with and answered with.
C11_MaximumMessageSizeAtLeast272 == MAXIMUM_MESSAGE_SIZE >= 272

\* connect begins: called by the user, or by the fatal-error handler
ConnectBegins == pc' = "connect_sync" /\ (pc = "idle" \/ fatal_depth' = fatal_depth + 1)

\* connect goes from its first read to its second
ConnectOpensAsync == pc = "connect_sync" /\ pc' = "connect_async"

\* C12: connect opens the synchronous channel and sends Initialize; the step
\* that reads the InitializeResponse, and no other, opens the asynchronous
\* channel and sends AsyncInitialize with the session id of that response;
\* connect returns on the AsyncInitializeResponse with overlap_mode the control
\* code and session_id the second half of the parameter of the
\* InitializeResponse, and rmt_delivered false.
C12_HandshakeOrder ==
    [][/\ ConnectBegins
            => /\ sync_channel' = "open"
               /\ sync_out'[Len(sync_out')].type = message_types.Initialize
               /\ async_channel' # "open" \/ async_channel = "open"
       /\ ConnectOpensAsync
            => /\ sync_in # <<>>
               /\ Head(sync_in).type = message_types.InitializeResponse
               /\ sync_in' = Tail(sync_in)
               /\ sync_out[Len(sync_out)].type = message_types.Initialize
               /\ async_channel' = "open"
               /\ async_out' = Append(async_out,
                     Frame(message_types.AsyncInitialize, 0,
                           <<0, Head(sync_in).param[2]>>, <<>>))
               /\ overlap_mode' = Head(sync_in).control
               /\ session_id' = Head(sync_in).param[2]
       /\ (async_channel # "open" /\ async_channel' = "open") => ConnectOpensAsync
       /\ (Len(async_out') > Len(async_out)
              /\ async_out'[Len(async_out')].type = message_types.AsyncInitialize)
            => ConnectOpensAsync
       /\ pc = "connect_async"
            => /\ overlap_mode' = overlap_mode
               /\ session_id' = session_id
       /\ (pc = "connect_async" /\ pc' = "returned" /\ outcome'.exc = "none")
            => /\ async_in # <<>>
               /\ Head(async_in).type = message_types.AsyncInitializeResponse
               /\ async_out[Len(async_out)].type = message_types.AsyncInitialize
               /\ rmt_delivered' = FALSE]_vars

\* a connect answered with control code 1 and session id 0x1234
C12_Witness ==
    /\ pc = "returned"
    /\ op = "connect"
    /\ outcome.exc = "none"
    /\ overlap_mode = 1
    /\ session_id = 4660
    /\ rmt_delivered = FALSE
    /\ sync_out = <<Frame(message_types.Initialize, 0, <<257, 23116>>, <<>>)>>
    /\ async_out = <<Frame(message_types.AsyncInitialize, 0, <<0, 4660>>, <<>>)>>

\* a read takes the next frame off the synchronous, or the asynchronous, channel
ReadsSync ==
    /\ pc \in SyncReaders
    /\ sync_in # <<>>
    /\ sync_in' = Tail(sync_in)

ReadsAsync ==
    /\ pc \in AsyncReaders
    /\ async_in # <<>>
    /\ async_in' = Tail(async_in)

\* C13: when a FatalError frame of the server is read, on either channel of a
\* session that has both, the operation ends with HiSLIPFatalError and both channels are closed (a later
\* connect then sets up a new session).
C13_ReceivedFatalErrorClosesChannels ==
    [][(/\ sync_channel = "open"
        /\ async_channel = "open"
        /\ \/ ReadsSync /\ Head(sync_in).type = message_types.FatalError
           \/ ReadsAsync /\ Head(async_in).type = message_types.FatalError)
          => /\ pc' = "returned"
             /\ outcome'.exc = "HiSLIPFatalError"
             /\ sync_channel' = "closed"
             /\ async_channel' = "closed"]_vars

\* C14: a recoverable error ends the operation with HiSLIPError and closes no
\* channel: ask, on a frame with an accepted id that is neither Data nor
\* DataEnd, first sends an Error frame with code 1; a read that takes an Error
\* frame of the server sends nothing.
C14_RecoverableErrorIsHiSLIPError ==
    [][/\ (AskReads /\ AcceptedId(Head(sync_in).param)
              /\ Head(sync_in).type \notin {message_types.Data, message_types.DataEnd,
                                            message_types.Error, message_types.FatalError})
            => /\ sync_out' = Append(sync_out, Frame(message_types.Error, 1, U32(0), <<>>))
               /\ pc' = "returned"
               /\ outcome'.exc = "HiSLIPError"
               /\ sync_channel' = sync_channel
               /\ async_channel' = async_channel
       /\ (\/ ReadsSync /\ Head(sync_in).type = message_types.Error
           \/ ReadsAsync /\ Head(async_in).type = message_types.Error)
            => /\ pc' = "returned"
               /\ outcome'.exc = "HiSLIPError"
               /\ sync_out' = sync_out
               /\ sync_channel' = sync_channel
               /\ async_channel' = async_channel]_vars

\* the payload ends with the newline
EndsWithNewline(payload) == payload # <<>> /\ payload[Len(payload)] = 10

\* C17: once ask has read a DataEnd frame whose payload ends with the newline,
\* rmt_delivered is true.
C17_RmtDeliveredAfterDataEndNewline ==
    [][(AskReads /\ Head(sync_in).type = message_types.DataEnd
           /\ EndsWithNewline(Head(sync_in).payload))
          => rmt_delivered' = TRUE]_vars

\* write, or ask, begins
WriteBegins == pc = "idle" /\ op' \in {"write", "ask"}

\* C19, as the code has it: write, and the write of ask, leave rmt_delivered as
\* it was, and every frame they send carries it as its control code.
C19_WriteKeepsRmtDelivered ==
    [][WriteBegins
          => /\ rmt_delivered' = rmt_delivered
             /\ \A i \in 1..Len(sync_out') :
                   sync_out'[i].control = (IF rmt_delivered THEN 1 ELSE 0)]_vars

\* a write on a session whose rmt_delivered is true: its frame carries control
\* code 1 and rmt_delivered is still true
C19_Witness ==
    /\ pc = "returned"
    /\ op = "write"
    /\ outcome.exc = "none"
    /\ rmt_delivered = TRUE
    /\ Len(sync_out) >= 1
    /\ sync_out[1].control = 1

\* C19, as the specification has it: rmt_delivered is false after a write has
\* sent its frames.
C19_WriteClearsRmtDelivered ==
    (pc = "returned" /\ op = "write" /\ sync_out # <<>>) => rmt_delivered = FALSE

\* rmt_delivered changes only in a step that reads a frame (the reads of connect
\* and device_clear among them)
RmtChangesOnlyOnRead ==
    rmt_delivered' # rmt_delivered => (ReadsSync \/ ReadsAsync)

\* the Data, DataEnd, Trigger and AsyncStatusQuery frames an operation sends when
\* it begins carry rmt_delivered as their control code
OutboundCarriesRmt ==
    pc = "idle" =>
        /\ \A i \in 1..Len(sync_out') :
              sync_out'[i].type \in {message_types.Data, message_types.DataEnd,
                                     message_types.Trigger}
                 => sync_out'[i].control = (IF rmt_delivered THEN 1 ELSE 0)
        /\ \A i \in 1..Len(async_out') :
              async_out'[i].type = message_types.AsyncStatusQuery
                 => async_out'[i].control = (IF rmt_delivered THEN 1 ELSE 0)

\* the frame type the read at pc waits for; -1 when any type is taken
ExpectedType ==
    [connect_sync |-> message_types.InitializeResponse,
     connect_async |-> message_types.AsyncInitializeResponse,
     ask |-> -1,
     set_max_message_size |-> message_types.AsyncMaximumMessageSizeResponse,
     dc_async |-> message_types.AsyncDeviceClearAcknowledge,
     dc_sync |-> message_types.DeviceClearAcknowledge,
     status_query |-> message_types.AsyncStatusResponse,
     lock_info |-> message_types.AsyncLockInfoResponse,
     remote_local |-> message_types.AsyncRemoteLocalResponse,
     request_lock |-> message_types.AsyncLockResponse,
     release_lock |-> message_types.AsyncLockResponse]

\* the read hands the frame f to the operation: f is no Error and no FatalError
\* frame and has the type waited for
Delivered(f) ==
    /\ f.type \notin {message_types.Error, message_types.FatalError}
    /\ ExpectedType[pc] \in {-1, f.type}

\* C20, as the code has it: rmt_delivered changes only when a frame is read;
\* every Data, DataEnd, Trigger and AsyncStatusQuery frame sent carries its
\* value; and every frame a read hands to the operation, on either channel,
\* overwrites it: it is false after any frame but a DataEnd that ends with the
\* newline.
C20_RmtDeliveredPropagates ==
    [][/\ RmtChangesOnlyOnRead
       /\ OutboundCarriesRmt
       /\ (ReadsSync /\ Delivered(Head(sync_in))
              /\ ~(Head(sync_in).type = message_types.DataEnd
                     /\ EndsWithNewline(Head(sync_in).payload)))
            => rmt_delivered' = FALSE
       /\ (ReadsAsync /\ Delivered(Head(async_in))) => rmt_delivered' = FALSE]_vars

\* a status query sent with control code 1 and answered: the AsyncStatusResponse
\* has overwritten the true value
C20_Witness ==
    /\ pc = "returned"
    /\ op = "status_query"
    /\ outcome.exc = "none"
    /\ async_out[1].type = message_types.AsyncStatusQuery
    /\ async_out[1].control = 1
    /\ rmt_delivered = FALSE

\* C20, as the specification has it: every frame read, on either channel,
\* overwrites rmt_delivered, also one on which the read ends in an exception.
C20_EveryFrameReadOverwritesRmt ==
    [][/\ RmtChangesOnlyOnRead
       /\ OutboundCarriesRmt
       /\ (ReadsSync
              /\ ~(Head(sync_in).type = message_types.DataEnd
                     /\ EndsWithNewline(Head(sync_in).payload)))
            => rmt_delivered' = FALSE
       /\ ReadsAsync => rmt_delivered' = FALSE]_vars

\* C15: a caller that has joined by acquiring srq_lock proceeds only when the
\* callback of every SRQ_wait thread it started has completed.
C15_JoinerProceedsAfterCallback ==
    joined => \A i \in DOMAIN waiters : waiters[i] \in {"check", "releasing", "done"}

\* the step invokes the callback of an SRQ_wait thread
CallbackInvoked == callbacks' # callbacks

\* C16: the callback is invoked only in a step that reads an
\* AsyncServiceRequest frame from the asynchronous channel, once for that
\* frame, and the callbacks invoked never outnumber the AsyncServiceRequest
\* frames that arrived on the channel.
C16_CallbackOnlyAfterServiceRequest ==
    [][/\ CallbackInvoked =>
             /\ callbacks' = callbacks + 1
             /\ async_in # <<>>
             /\ Head(async_in).type = message_types.AsyncServiceRequest
             /\ async_in' = Tail(async_in)
       /\ callbacks' <= srq_sent']_vars

\* two SRQ_wait threads, the second started while the first was pending, each
\* in the callback of its own AsyncServiceRequest
C16_Witness ==
    /\ waiters = <<"callback", "callback">>
    /\ callbacks = 2
    /\ srq_sent = 2

\* the message parameter p read back is the parameter q that was encoded: the
\* same two 16-bit subfields, the second of an Initialize read back as text
SameParameter(t, p, q) ==
    IF t = message_types.Initialize
    THEN p[1] = q[1] /\ UnpackH(p[2].chars) = q[2]
    ELSE p = q

\* C18: a frame that is encoded and read back gives no exception and the type,
\* control code, message parameter and payload bytes that were encoded.
C18_CodecRoundTrip ==
    codec_out # <<>> =>
        /\ codec_out[1].exc = "none"
        /\ codec_out[1].value.type = codec_in[1].type
        /\ codec_out[1].value.control = codec_in[1].control
        /\ SameParameter(codec_in[1].type, codec_out[1].value.param, codec_in[1].param)
        /\ codec_out[1].value.payload.chars = codec_in[1].payload

\* a read finds nothing within SOCKET_TIMEOUT: the operation is in a read, no
\* frame is queued on the channel it reads, and the client sends
ReadTimesOut ==
    /\ \/ pc \in SyncReaders /\ sync_in = <<>>
       \/ pc \in AsyncReaders /\ async_in = <<>>
    /\ sync_out' # sync_out

\* C21: when a read times out the client sends the FatalError frame with
\* control code 1 on the synchronous channel, closes both channels and
\* starts the reconnect, and the exception it raises is HiSLIPFatalError.
C21_ReadTimeoutIsFatalCode1 ==
    [][ReadTimesOut
         => /\ Len(sync_out') > Len(sync_out)
            /\ sync_out'[Len(sync_out) + 1] = Frame(message_types.FatalError, 1, U32(0), <<>>)
            /\ async_channel' = "closed"
            /\ \/ pc' = "connect_sync" /\ fatal_depth' = fatal_depth + 1
               \/ pc' = "returned" /\ outcome'.exc = "HiSLIPFatalError"]_vars

\* C22: a locally detected fatal error makes at most one reconnect attempt.
C22_AtMostOneReconnect == fatal_depth <= 1

\* the DeviceClearComplete frames among the frames sent on the synchronous channel
CompleteSent(out) ==
    Cardinality({i \in 1..Len(out) : out[i].type = message_types.DeviceClearComplete})

\* the step reads a frame of type t from the asynchronous, the synchronous channel
TakesAsync(t) == async_in # <<>> /\ Head(async_in).type = t /\ async_in' = Tail(async_in)
TakesSync(t) == sync_in # <<>> /\ Head(sync_in).type = t /\ sync_in' = Tail(sync_in)

C24_ReleaseLockSendsLastId ==
    [][(pc = "idle" /\ pc' = "release_lock")
         => async_out' = <<Frame(message_types.AsyncLock, 0,
                                 IF nframes = 0 THEN U32(0) ELSE most_recent_message_id,
                                 <<>>)>>]_vars

\* an SRQ_wait thread ends its read in this step
WaiterReads == \E i \in DOMAIN waiters : waiters[i] = "read" /\ waiters'[i] # "read"

\* the read of the caller's status_query ends in this step
CallerReads ==
    /\ pc = "status_query"
    /\ pc' # "status_query"
    /\ waiters' = waiters

\* an SRQ_wait thread is waiting for its AsyncServiceRequest
WaiterPending == \E i \in DOMAIN waiters : waiters[i] \in {"poll", "read"}

\* C25: the asynchronous channel has one reader for each frame: an SRQ_wait
\* thread reads no frame but an AsyncServiceRequest, and while an SRQ_wait
\* thread is pending the status_query of the caller reads no
\* AsyncServiceRequest.
C25_SingleReader ==
    [][/\ (WaiterReads /\ async_channel = "open" /\ async_in # <<>>)
            => Head(async_in).type = message_types.AsyncServiceRequest
       /\ (CallerReads /\ WaiterPending /\ async_in # <<>>)
            => Head(async_in).type # message_types.AsyncServiceRequest]_vars

\* C26: between operations the synchronous and the asynchronous channel are
\* both open or both not open.
C26_ChannelsOpenTogether ==
    pc \in {"idle", "returned"} => (sync_channel = "open" <=> async_channel = "open")

\* the step changes message_id or most_recent_message_id
IdsChange ==
    <<message_id, most_recent_message_id>>' # <<message_id, most_recent_message_id>>

\* the step begins a write, an ask or a trigger_message, which send their frames
DataTransferBegins == pc = "idle" /\ op' \in {"write", "ask", "trigger"}

\* the step reads the DeviceClearAcknowledge that ends a device_clear
DeviceClearEnds == pc = "dc_sync" /\ TakesSync(message_types.DeviceClearAcknowledge)

\* the step reads the AsyncInitializeResponse that ends a handshake, of a
\* connect the caller made or of the reconnect after a local fatal error
HandshakeEnds == pc = "connect_async" /\ TakesAsync(message_types.AsyncInitializeResponse)

ServiceRequestArrived ==
    /\ waiters # <<>>
    /\ waiters[1] = "poll"
    /\ async_channel = "open"
    /\ async_in # <<>>
    /\ Head(async_in).type = message_types.AsyncServiceRequest
    /\ callbacks = 0

\* a callback has been invoked and an SRQ_wait thread has ended with srq_lock
\* released
ServiceRequestHandled ==
    /\ callbacks >= 1
    /\ \E i \in DOMAIN waiters : waiters[i] = "done"

\* the caller has called connect again, which replaces the session
ConnectsAnew == pc \in {"connect_sync", "connect_async"} /\ fatal_depth = 0

\* C28: once an AsyncServiceRequest has arrived for a pending SRQ_wait thread,
\* eventually the callback is invoked, srq_lock is released and the thread
\* ends (unless the caller replaces the session by a new connect).
C28_ServiceRequestLeadsToCallback ==
    ServiceRequestArrived ~> (ServiceRequestHandled \/ ConnectsAnew)

\* the operation is in a read that expects one frame type
TypedRead == pc \in (SyncReaders \cup AsyncReaders) \ {"ask"}

\* the frame the read at pc takes in this step, if it takes one
FrameRead ==
    IF pc \in SyncReaders THEN Head(sync_in) ELSE Head(async_in)

\* the read at pc takes a frame in this step
ReadsFrame ==
    IF pc \in SyncReaders
    THEN sync_in # <<>> /\ sync_in' \in {Tail(sync_in), <<>>}
    ELSE async_in # <<>> /\ async_in' \in {Tail(async_in), <<>>}

\* C29: an operation that expects one frame type returns no result from a
\* frame of another type; when the frame it reads is of another type (and is
\* no Error and no FatalError frame) it sends FatalError with code 0 on the
\* synchronous channel, closes the channels and reconnects, and the
\* exception it raises is HiSLIPFatalError.
C29_UnexpectedTypeIsFatal ==
    [][(TypedRead /\ ReadsFrame)
         => /\ (pc' = "returned" /\ outcome'.exc = "none")
                 => FrameRead.type = ExpectedType[pc]
            /\ (FrameRead.type \notin {ExpectedType[pc], message_types.Error,
                                       message_types.FatalError})
                 => /\ Len(sync_out') > Len(sync_out)
                    /\ sync_out'[Len(sync_out) + 1]
                          = Frame(message_types.FatalError, 0, U32(0), <<>>)
                    /\ async_channel' = "closed"
                    /\ \/ pc' = "connect_sync" /\ fatal_depth' = fatal_depth + 1
                       \/ pc' = "returned" /\ outcome'.exc = "HiSLIPFatalError"]_vars


\* the step takes frames off the synchronous channel
TakesFromSync == Len(sync_in') < Len(sync_in)

\* the frames unread on the synchronous channel stay, in their order, at the
\* front of it
KeepsUnread ==
    /\ Len(sync_in') >= Len(sync_in)
    /\ SubSeq(sync_in', 1, Len(sync_in)) = sync_in

\* ask has ended; when it returned, it returned an empty result
EndsEmpty == pc' = "returned" /\ (outcome'.exc = "none" => outcome'.value = <<>>)

\* C30: a step of ask that reads the synchronous channel takes exactly the
\* first unread frame; when that frame is a DataEnd or a frame ask does not
\* accept, ask ends with that step (empty, when the frame was not accepted),
\* and from then until the next operation reads this channel nothing is taken
\* from it: a response queued behind a stale one is still the first unread
\* frame.
C30_AskStopsAtFirstEnd ==
    [][/\ (pc = "ask" /\ TakesFromSync)
            => LET header == Head(sync_in)
               IN  /\ sync_in' = Tail(sync_in)
                   /\ header.type = message_types.DataEnd => pc' = "returned"
                   /\ ~AcceptedId(header.param) => EndsEmpty
       /\ (op = "ask" /\ pc \in {"returned", "idle"} /\ pc' # "connect_sync")
            => KeepsUnread]_vars

\* ask on Python 3 returned empty at a stale response, and the response to its
\* query is the one frame unread on the synchronous channel
C30_Witness ==
    /\ PY3
    /\ ~reqRaw
    /\ pc = "returned"
    /\ op = "ask"
    /\ outcome.exc = "none"
    /\ outcome.value = <<>>
    /\ sync_in = <<Frame(message_types.DataEnd, 0, most_recent_message_id, <<NL>>)>>


\* the fatal-error handler is running, or is entered with this step
InFatalHandler == fatal_depth > 0 \/ fatal_depth' > 0

\* the connect made by the fatal-error handler reads its AsyncInitializeResponse,
\* and HiSLIPFatalError is raised to the caller
ReconnectSucceeds ==
    /\ fatal_depth > 0
    /\ pc = "connect_async"
    /\ async_in # <<>>
    /\ Head(async_in).type = message_types.AsyncInitializeResponse
    /\ pc' = "returned"

\* C31: from the step that detects a fatal error locally to the end of the
\* reconnect, MAXIMUM_MESSAGE_SIZE, SOCKET_TIMEOUT and LOCK_TIMEOUT keep their
\* values; the reconnect takes overlap_mode and session_id from the
\* InitializeResponse it reads and keeps them to its end; and when it has
\* succeeded both channels are open, message_id and most_recent_message_id are
\* 0xFFFFFF00 and rmt_delivered is false.
C31_ReconnectResetsSession ==
    [][/\ InFatalHandler
            => UNCHANGED <<MAXIMUM_MESSAGE_SIZE, SOCKET_TIMEOUT, LOCK_TIMEOUT>>
       /\ (fatal_depth > 0 /\ pc = "connect_sync" /\ pc' = "connect_async")
            => /\ overlap_mode' = Head(sync_in).control
               /\ session_id' = Head(sync_in).param[2]
       /\ (fatal_depth > 0 /\ pc = "connect_async")
            => UNCHANGED <<overlap_mode, session_id>>
       /\ ReconnectSucceeds
            => /\ outcome'.exc = "HiSLIPFatalError"
               /\ sync_channel' = "open"
               /\ async_channel' = "open"
               /\ message_id' = <<65535, 65280>>
               /\ most_recent_message_id' = <<65535, 65280>>
               /\ rmt_delivered' = FALSE]_vars

\* request_lock has ended in HiSLIPFatalError after a reconnect, on a session
\* that had written frames and changed the three settings
C31_Witness ==
    /\ pc = "returned"
    /\ op = "request_lock"
    /\ outcome.exc = "HiSLIPFatalError"
    /\ Len(sync_out) >= 2
    /\ sync_out[1].type = message_types.FatalError
    /\ sync_channel = "open"
    /\ async_channel = "open"
    /\ start_id # <<65535, 65280>>
    /\ message_id = <<65535, 65280>>
    /\ MAXIMUM_MESSAGE_SIZE # _MAXIMUM_MESSAGE_SIZE
    /\ SOCKET_TIMEOUT # _SOCKET_TIMEOUT
    /\ LOCK_TIMEOUT # _LOCK_TIMEOUT

====
